---- MODULE Spec2Model ----
(***************************************************************************)
(* prom-autoexporter: the event dispatcher with its cancellation registry  *)
(* and retry helper (package backend, ListenEventsForExported), and the    *)
(* docker backend's startup pipeline and teardown (DockerBackend).         *)
(*                                                                         *)
(* Processes: 0 is the dispatch loop (or, in SpecReg, the caller of the    *)
(* registry); i >= 1 is units[i], a goroutine launched by the loop or one  *)
(* call under study (RunExporter, retry).                                  *)
(***************************************************************************)
EXTENDS Integers, Sequences, FiniteSets, TLC

VARIABLES
    units,      \* the units of work: a sequence of process records
    loop,       \* the dispatch loop: [pc, evt]
    funcs,      \* cancelCollection.funcs: container id -> context (its CancelFunc)
    invoked,    \* invoked[c]: how often the CancelFunc of context c was called
    mutex,      \* cancellables.mutex, the RWMutex of the dispatcher's collection
    held,       \* processes holding the mutex of their receiver copy
    halted,     \* "no", or why the whole program stopped
    nevts,      \* events taken from the stream so far
    trace       \* SpecReg: the registry operations made, with the state after each

vars == <<units, loop, funcs, invoked, mutex, held, halted, nevts, trace>>

----------------------------------------------------------------------------
(* Bounds of the model *)

MaxEvents == 3      \* events the stream delivers
MaxTimes == 3       \* largest `times` retry is called with in SpecRetry
MaxDepth == 5       \* cap on the depth of retry's recursion
MaxOps == 4         \* registry operations in SpecReg

(* Program constants *)

retryTimes == 3     \* retry(3, 5, handler)

Ids == {"c1", "c2"}                 \* container ids of monitored tasks
Cids == {"x1", "x2"}                \* ids the runtime gives to created containers
Images == {"redis_exporter", "php_exporter"}

LABEL_EXPORTED_ID == "autoexporter.exported.id"
LABEL_EXPORTED_NAME == "autoexporter.exported.name"

stepPullImage == "pullImage"
stepCreate == "create"
stepConnect == "connect"
stepStart == "start"
stepFinished == "finished"

promNetwork == "testnet"

----------------------------------------------------------------------------
(* Errors. A message is a sequence of words; nil is Nil. *)

Nil == [kind |-> "nil", msg |-> <<>>, stack |-> FALSE, n |-> 0]

Err(kind, msg) == [kind |-> kind, msg |-> msg, stack |-> FALSE, n |-> 0]

\* errors.WithStack(err): nil for nil, else err annotated with a stack
\* (the message is unchanged).
WithStack(e) == IF e = Nil THEN Nil ELSE [e EXCEPT !.stack = TRUE]

\* A mutant of Contains: the whole of s is compared.
ContainsWhole(s, substr) == s = substr

\* strings.Contains(s, substr), on sequences of words.
Contains(s, substr) ==
    \E i \in 0..(Len(s) - Len(substr)) : SubSeq(s, i + 1, i + Len(substr)) = substr

EndpointWithName == <<"endpoint", "with", "name">>

MsgPull == <<"error", "pulling", "image">>
MsgRead == <<"unexpected", "EOF">>
MsgCreate == <<"error", "creating", "container">>
MsgConnect == <<"error", "connecting", "to", "network">>
MsgEndpoint == <<"endpoint", "with", "name", "exporter004", "already", "exists", "in", "network">>
MsgNameWith == <<"network", "with", "name", "endpoint", "not", "found">>
MsgStart == <<"error", "starting", "container">>

Last(s) == s[Len(s)]

----------------------------------------------------------------------------
(* The Cancellation Registry (cancelCollection).                           *)
(* A context is a number: 1 is the context the caller passes in (ctx of    *)
(* ListenEventsForExported or of RunExporter), c >= 2 a context made from  *)
(* it by context.WithCancel; invoked[c] counts the calls of the CancelFunc *)
(* of c. A context is done once its CancelFunc or its parent's was called. *)

ParentCtx == 1

Done(inv, ctx) == inv[ctx] > 0 \/ inv[ParentCtx] > 0

Delete(m, k) == [x \in (DOMAIN m) \ {k} |-> m[x]]

\* A mutant of cancel: the entry is left in the map.
cancelKeepsEntry(m, inv, k) ==
    IF k \in DOMAIN m
    THEN [funcs |-> m, invoked |-> [inv EXCEPT ![m[k]] = @ + 1], ctx |-> 0]
    ELSE [funcs |-> m, invoked |-> inv, ctx |-> 0]

\* A mutant of cancel: nothing is cancelled and nothing deleted.
cancelNothing(m, inv, k) == [funcs |-> m, invoked |-> inv, ctx |-> 0]

\* cancel(k), between Lock and Unlock.
cancel(m, inv, k) ==
    IF k \in DOMAIN m
    THEN [funcs |-> Delete(m, k), invoked |-> [inv EXCEPT ![m[k]] = @ + 1], ctx |-> 0]
    ELSE [funcs |-> m, invoked |-> inv, ctx |-> 0]

\* add(k, ctx), between Lock and Unlock: ctx, c.funcs[k] = context.WithCancel(ctx).
add(m, inv, k) ==
    [funcs |-> (k :> (Len(inv) + 1)) @@ m,
     invoked |-> Append(inv, 0),
     ctx |-> Len(inv) + 1]

\* A mutant of remove: the entry is left in the map.
removeKeepsEntry(m, inv, k) == [funcs |-> m, invoked |-> inv, ctx |-> 0]

\* A mutant of remove: the map is emptied.
removeClears(m, inv, k) == [funcs |-> <<>>, invoked |-> inv, ctx |-> 0]

\* remove(k), between Lock and Unlock.
remove(m, inv, k) ==
    IF k \in DOMAIN m
    THEN [funcs |-> Delete(m, k), invoked |-> inv, ctx |-> 0]
    ELSE [funcs |-> m, invoked |-> inv, ctx |-> 0]

\* The methods have value receivers, func (c cancelCollection) ...: every call
\* works on a copy c of the collection. The copy shares the map and has a
\* mutex of its own, in the state the collection's mutex is in at the call.
ReceiverMutex(mtx) == mtx

\* c.mutex.Lock() can be taken when the receiver's mutex is unlocked.
CanLock(mtx) == ReceiverMutex(mtx) = 0

----------------------------------------------------------------------------
(* retry(times, interval, f).                                              *)
(* `times` is a uint; it is kept in two's complement, so that 0 - 1 is -1, *)
(* the largest uint, and `times != 0` reads the same.                      *)

Dec(times) == times - 1

\* Lines 124-126: the frame's times after f returned err.
retryTimesAfter(times, err) == IF err # Nil THEN Dec(times) ELSE times

\* A mutant of retryAgain: err is not looked at.
retryAgainWhileTimes(times, err) == times # 0

\* Line 127: whether the frame sleeps and calls retry again.
retryAgain(times, err) == times # 0 /\ err # Nil

----------------------------------------------------------------------------
(* The Startup Pipeline (RunExporter) as functions of the process p.       *)

Call(fn, args) == [fn |-> fn, args |-> args]

\* A mutant of ctxDone: the context is not looked at.
ctxDoneNever(inv, ctx) == FALSE

\* select { case <-ctx.Done(): ... }
ctxDone(inv, ctx) == Done(inv, ctx)

pullImageCall(exporter) == Call("ImagePull", <<exporter.Image>>)

createContainerCall(exporter) ==
    Call("ContainerCreate",
         <<exporter.Name, "container:", exporter.TaskID,
           LABEL_EXPORTED_ID, exporter.TaskID,
           LABEL_EXPORTED_NAME, exporter.TaskName>>)

connectToNetworkCall(cid) == Call("NetworkConnect", <<promNetwork, cid>>)

startContainerCall(cid) == Call("ContainerStart", <<cid>>)

\* A mutant of stepCall: the monitored task is connected to the network.
stepCallConnectsTask(p) ==
    CASE p.step = stepPullImage -> pullImageCall(p.exporter)
      [] p.step = stepCreate -> createContainerCall(p.exporter)
      [] p.step = stepConnect -> connectToNetworkCall(p.exporter.TaskID)
      [] p.step = stepStart -> startContainerCall(p.cid)

\* The runtime call the loop issues in step p.step.
stepCall(p) ==
    CASE p.step = stepPullImage -> pullImageCall(p.exporter)
      [] p.step = stepCreate -> createContainerCall(p.exporter)
      [] p.step = stepConnect -> connectToNetworkCall(p.cid)
      [] p.step = stepStart -> startContainerCall(p.cid)

\* What the runtime can answer to the call of each step: [err, id].
Outcomes(step) ==
    CASE step = stepPullImage ->
            {[err |-> Nil, id |-> ""],
             [err |-> Err("pull", MsgPull), id |-> ""],
             [err |-> Err("read", MsgRead), id |-> ""]}
      [] step = stepCreate ->
            {[err |-> Nil, id |-> c] : c \in Cids}
            \cup {[err |-> Err("create", MsgCreate), id |-> ""]}
      [] step = stepConnect ->
            {[err |-> Nil, id |-> ""],
             [err |-> Err("connect", MsgConnect), id |-> ""],
             [err |-> Err("connect", MsgEndpoint), id |-> ""],
             [err |-> Err("connect", MsgNameWith), id |-> ""]}
      [] step = stepStart ->
            {[err |-> Nil, id |-> ""],
             [err |-> Err("start", MsgStart), id |-> ""]}

pullImage(out) == WithStack(out.err)

\* A mutant of createContainer: the error of ContainerCreate is dropped.
createContainerDropsErr(out) == [cid |-> out.id, err |-> Nil]

createContainer(out) ==
    IF out.err # Nil
    THEN [cid |-> "", err |-> WithStack(out.err)]
    ELSE [cid |-> out.id, err |-> Nil]

connectToNetwork(out) ==
    IF out.err # Nil /\ Contains(out.err.msg, EndpointWithName)
    THEN Nil
    ELSE IF out.err # Nil THEN WithStack(out.err) ELSE Nil

startContainer(out) == WithStack(out.err)

\* A mutant of stepResult: stepCreate is followed by stepStart.
stepResultSkipsConnect(p, out) ==
    CASE p.step = stepPullImage ->
            [p EXCEPT !.runErr = pullImage(out), !.step = stepCreate]
      [] p.step = stepCreate ->
            [p EXCEPT !.runErr = createContainer(out).err,
                      !.cid = createContainer(out).cid,
                      !.step = stepStart]
      [] p.step = stepConnect ->
            [p EXCEPT !.runErr = connectToNetwork(out), !.step = stepStart]
      [] p.step = stepStart ->
            [p EXCEPT !.runErr = startContainer(out), !.step = stepFinished]

\* The switch of the loop: p after the call of step p.step answered out.
stepResult(p, out) ==
    CASE p.step = stepPullImage ->
            [p EXCEPT !.runErr = pullImage(out), !.step = stepCreate]
      [] p.step = stepCreate ->
            [p EXCEPT !.runErr = createContainer(out).err,
                      !.cid = createContainer(out).cid,
                      !.step = stepConnect]
      [] p.step = stepConnect ->
            [p EXCEPT !.runErr = connectToNetwork(out), !.step = stepStart]
      [] p.step = stepStart ->
            [p EXCEPT !.runErr = startContainer(out), !.step = stepFinished]

----------------------------------------------------------------------------
(* Units of work *)

NoExporter == [Name |-> "", Image |-> "", TaskID |-> "", TaskName |-> ""]

NewUnit(kind, id, ctx, reg, times) ==
    [kind |-> kind,         \* "start", "die": goroutines of the dispatcher
                            \* "run": a call of RunExporter; "f": a call of retry
     id |-> id,             \* evt.Actor.ID
     ctx |-> ctx,           \* the context the unit runs with
     reg |-> reg,           \* the context registered for its event (0: none)
     pc |-> "retry",
     frames |-> <<times>>,  \* retry's call stack: the `times` of each frame
     n0 |-> times,          \* the `times` of the outermost call
     err |-> Nil,           \* the value retry (or RunExporter) returned
     hist |-> <<>>,         \* kind "f": what each invocation of f returned;
                            \* kinds "run", "cleanup": what the runtime answered
                            \* to each call
     force |-> FALSE,       \* kind "cleanup": the force flag
     exporter |-> NoExporter,
     step |-> stepPullImage,
     cid |-> "",
     runErr |-> Nil,        \* what RunExporter returned last
     calls |-> <<>>,        \* the runtime calls issued, in order
     list |-> <<>>,         \* kind "bulk": the containers ContainerList returned
     failed |-> <<>>,       \* kind "bulk": the names of the sidecars refused
     results |-> <<>>,      \* kind "bulk": for each sidecar gone through, what
                            \* stopExporter returned and where its calls start;
                            \* kind "find": the calls of resolveExporters
     i |-> 0,               \* kind "find": the containers gone through
     missing |-> <<>>]      \* kind "find": the exporters found missing

U == 1..Len(units)

Set(u, r) == units' = [units EXCEPT ![u] = r]

\* The locals of a handler are gone when it returns.
HandlerReturned(p) ==
    [p EXCEPT !.exporter = NoExporter, !.step = stepPullImage, !.cid = "", !.calls = <<>>]

\* f returned e to the innermost frame of retry: lines 124-133. When the
\* frame does not call retry again, it returns err, and so does every frame
\* above it (err = retry(...); return err).
AfterF(p, e) ==
    LET t == retryTimesAfter(Last(p.frames), e)
        fr == [p.frames EXCEPT ![Len(p.frames)] = t]
        h == IF p.kind = "f" THEN Append(p.hist, e) ELSE p.hist
    IN IF retryAgain(t, e)
       THEN [p EXCEPT !.frames = fr, !.hist = h, !.pc = "sleep"]
       ELSE [p EXCEPT !.frames = fr, !.hist = h, !.err = e,
                      !.pc = IF p.kind \in {"start", "die"} THEN "remove_lock"
                             ELSE "returned"]

\* handleContainerStart, lines 185-187: b.RunExporter(ctx, exporter); return nil
handleContainerStartReturn(runErr) == Nil

\* RunExporter returned r.
AfterRun(p, r) ==
    IF p.kind = "start"
    THEN AfterF(HandlerReturned([p EXCEPT !.runErr = r]), handleContainerStartReturn(r))
    ELSE [p EXCEPT !.runErr = r, !.err = r, !.pc = "returned"]

FromPredefinedExporter(exporterName, id) ==
    [Name |-> exporterName, Image |-> "redis_exporter", TaskID |-> id, TaskName |-> id]

Running == halted = "no"

\* A mutant of Exit: the reason is noted and the program goes on.
ExitGoesOn(why) ==
    /\ halted' = why
    /\ UNCHANGED <<units, loop, funcs, invoked, mutex, held, nevts, trace>>

\* The program ends (a panic, a fatal error of the runtime): its goroutines
\* and its memory are gone.
Exit(why) ==
    /\ halted' = why
    /\ units' = <<>>
    /\ loop' = [pc |-> "exited", evt |-> [action |-> "", id |-> "", attrs |-> <<>>],
                ctx |-> 0]
    /\ funcs' = <<>>
    /\ invoked' = <<0>>
    /\ held' = {}
    /\ nevts' = 0
    /\ UNCHANGED <<mutex, trace>>

----------------------------------------------------------------------------
(* Actions of a unit *)

\* time.Sleep(interval), then err = retry(times, interval, f)
Sleep(u) ==
    /\ Running
    /\ units[u].pc = "sleep"
    /\ Len(units[u].frames) < MaxDepth
    /\ Set(u, [units[u] EXCEPT !.pc = "retry",
                               !.frames = Append(@, Last(@))])
    /\ UNCHANGED <<loop, funcs, invoked, mutex, held, halted, nevts, trace>>

InspectCall(id) == Call("ContainerInspect", <<id>>)

StartOutcomes ==
    {"notFound", "inspectErr", "labelErr", "noExporter", "predefinedNotFound",
     "predefinedErr", "ok"}

\* handleContainerStart up to the call of RunExporter. `how` is what the
\* inspection and the resolution of the exporter come to.
StartResult(p0, how) ==
    LET p == [p0 EXCEPT !.calls = Append(@, InspectCall(p0.id)), !.runErr = Nil]
        q == HandlerReturned(p)
    IN CASE how = "notFound" -> AfterF(q, Nil)
         [] how = "inspectErr" ->
              AfterF(q, WithStack(Err("inspect", <<"cannot", "inspect">>)))
         [] how = "labelErr" ->
              AfterF(q, WithStack(Err("template", <<"bad", "template">>)))
         [] how = "noExporter" -> AfterF(q, Nil)
         [] how = "predefinedNotFound" -> AfterF(q, Nil)
         [] how = "predefinedErr" ->
              AfterF(q, Err("predefined", <<"bad", "exporter">>))
         [] how = "ok" ->
              [p EXCEPT !.pc = "run_select",
                        !.exporter = FromPredefinedExporter("redis", p.id),
                        !.step = stepPullImage,
                        !.cid = ""]

HandleStart(u, how) ==
    /\ Running
    /\ units[u].kind = "start" /\ units[u].pc = "retry"
    /\ Set(u, StartResult(units[u], how))
    /\ UNCHANGED <<loop, funcs, invoked, mutex, held, halted, nevts, trace>>

\* The values of the exporter label of an inspected container: none, a
\* template that cannot be parsed, the name of the predefined exporter and
\* a name of no predefined exporter.
LabelValues == {"", "{{", "redis", "nosuch"}

\* renderTpl(tplStr, values), lines 194-211: a text without actions renders
\* to itself.
renderTpl(tplStr) ==
    IF tplStr = "{{"
    THEN [val |-> "", err |-> WithStack(Err("template", <<"bad", "template">>))]
    ELSE [val |-> tplStr, err |-> Nil]

\* models.FromPredefinedExporter(exporterName, ...), as handleContainerStart
\* tells its results apart: redis is the predefined exporter.
predefined(exporterName, fails) ==
    IF exporterName # "redis" THEN "notFound"
    ELSE IF fails THEN "err" ELSE "ok"

\* What an attempt of handleContainerStart is given: the answer of the
\* inspection, the exporter label of the container, the exporter matching
\* its name and whether building the exporter fails.
StartInputs ==
    [inspect : {"notFound", "err", "ok"}, label : LabelValues,
     match : {"", "redis"}, fails : BOOLEAN]

\* Lines 148-156: the exporter name, from the rendered label or else from
\* FindMatchingExporter.
exporterNameOf(label, match) ==
    IF renderTpl(label).val = "" THEN match ELSE renderTpl(label).val

\* A mutant of startOutcome: a container not found is an error like any
\* other error of the inspection.
startOutcomeNotFoundFails(in) ==
    IF in.inspect \in {"notFound", "err"} THEN "inspectErr"
    ELSE IF renderTpl(in.label).err # Nil THEN "labelErr"
    ELSE IF exporterNameOf(in.label, in.match) = "" THEN "noExporter"
    ELSE IF predefined(exporterNameOf(in.label, in.match), in.fails) = "notFound"
         THEN "predefinedNotFound"
    ELSE IF predefined(exporterNameOf(in.label, in.match), in.fails) = "err"
         THEN "predefinedErr"
    ELSE "ok"

\* Lines 137-177: how handleContainerStart goes up to the call of RunExporter.
startOutcome(in) ==
    IF in.inspect = "notFound" THEN "notFound"
    ELSE IF in.inspect = "err" THEN "inspectErr"
    ELSE IF renderTpl(in.label).err # Nil THEN "labelErr"
    ELSE IF exporterNameOf(in.label, in.match) = "" THEN "noExporter"
    ELSE IF predefined(exporterNameOf(in.label, in.match), in.fails) = "notFound"
         THEN "predefinedNotFound"
    ELSE IF predefined(exporterNameOf(in.label, in.match), in.fails) = "err"
         THEN "predefinedErr"
    ELSE "ok"

\* Lines 137-185: what an attempt of handleContainerStart calls before it
\* returns or enters RunExporter.
startCalls(id, in) ==
    <<InspectCall(id)>>
    \o (IF startOutcome(in) \in {"notFound", "inspectErr", "labelErr"} THEN <<>>
        ELSE (IF renderTpl(in.label).val = ""
              THEN <<Call("FindMatchingExporter", <<id>>)>> ELSE <<>>)
             \o (IF startOutcome(in) = "noExporter" THEN <<>>
                 ELSE <<Call("FromPredefinedExporter",
                             <<exporterNameOf(in.label, in.match), promNetwork, id>>)>>))

\* An attempt of handleContainerStart given `in`; hist keeps what each
\* attempt was given and what it called.
HandleStartFrom(u, in) ==
    /\ Running
    /\ units[u].kind = "start" /\ units[u].pc = "retry"
    /\ in \in StartInputs
    /\ Set(u, [StartResult(units[u], startOutcome(in)) EXCEPT
                  !.hist = Append(units[u].hist,
                                  [inspect |-> in.inspect, label |-> in.label,
                                   match |-> in.match, fails |-> in.fails,
                                   calls |-> startCalls(units[u].id, in)])])
    /\ UNCHANGED <<loop, funcs, invoked, mutex, held, halted, nevts, trace>>

\* RunExporter: case <-ctx.Done(): return nil
RunCancelled(u) ==
    /\ Running
    /\ units[u].pc = "run_select"
    /\ ctxDone(invoked, units[u].ctx)
    /\ Set(u, AfterRun(units[u], Nil))
    /\ UNCHANGED <<loop, funcs, invoked, mutex, held, halted, nevts, trace>>

\* RunExporter: default, with a step that issues a runtime call.
RunIssue(u) ==
    /\ Running
    /\ units[u].pc = "run_select"
    /\ ~ctxDone(invoked, units[u].ctx)
    /\ units[u].step # stepFinished
    /\ Set(u, [units[u] EXCEPT !.pc = "run_call",
                               !.calls = Append(@, stepCall(units[u]))])
    /\ UNCHANGED <<loop, funcs, invoked, mutex, held, halted, nevts, trace>>

\* p after the call issued in step p.step answered out: the step is set
\* and err is checked (lines 99-101).
Returned(p, out) ==
    LET q == stepResult([p EXCEPT !.hist = IF p.kind = "run" THEN Append(@, out) ELSE @],
                        out)
    IN IF q.runErr # Nil
       THEN AfterRun(q, q.runErr)
       ELSE [q EXCEPT !.pc = "run_select"]

\* The call in flight answers `out`.
RunReturn(u, out) ==
    /\ Running
    /\ units[u].pc = "run_call"
    /\ out \in Outcomes(units[u].step)
    /\ Set(u, Returned(units[u], out))
    /\ UNCHANGED <<loop, funcs, invoked, mutex, held, halted, nevts, trace>>

\* In the dispatcher, one pass of RunExporter's loop in one step: the call
\* is issued and answers `out`.
RunStep(u, out) ==
    /\ Running
    /\ units[u].pc = "run_select"
    /\ ~ctxDone(invoked, units[u].ctx)
    /\ units[u].step # stepFinished
    /\ out \in Outcomes(units[u].step)
    /\ Set(u, Returned([units[u] EXCEPT !.calls = Append(@, stepCall(units[u]))], out))
    /\ UNCHANGED <<loop, funcs, invoked, mutex, held, halted, nevts, trace>>

\* RunExporter: case stepFinished: return nil
RunFinished(u) ==
    /\ Running
    /\ units[u].pc = "run_select"
    /\ ~ctxDone(invoked, units[u].ctx)
    /\ units[u].step = stepFinished
    /\ Set(u, AfterRun(units[u], Nil))
    /\ UNCHANGED <<loop, funcs, invoked, mutex, held, halted, nevts, trace>>

Steps == {stepPullImage, stepCreate, stepConnect, stepStart}

AllOutcomes == UNION {Outcomes(s) : s \in Steps}

\* The answers of the runtime and the inspections the dispatcher is run with.
DispatchOutcomes ==
    {out \in AllOutcomes :
        /\ out.id \in {"", "x1"}
        /\ out.err.kind # "read"
        /\ out.err.msg # MsgNameWith}

\* For the dispatcher the other ways handleContainerStart ends come to one
\* of these: it returns nil, or an error, before RunExporter is called.
DispatchStartOutcomes ==
    StartOutcomes \ {"labelErr", "noExporter", "predefinedNotFound", "predefinedErr"}

\* handleContainerStop: FindAssociatedExporter
HandleStopFind(u, how) ==
    /\ Running
    /\ units[u].kind = "die" /\ units[u].pc = "retry"
    /\ LET p == [units[u] EXCEPT
                    !.calls = Append(@, Call("FindAssociatedExporter", <<units[u].id>>))]
           q == HandlerReturned(p)
       IN CASE how = "err" -> Set(u, AfterF(q, Err("find", <<"cannot", "list">>)))
            [] how = "notFound" -> Set(u, AfterF(q, Nil))
            [] how = "found" -> Set(u, [p EXCEPT !.pc = "cleanup"])
    /\ UNCHANGED <<loop, funcs, invoked, mutex, held, halted, nevts, trace>>

\* handleContainerStop: return b.CleanupExporter(ctx, exporter.ID)
HandleStopCleanup(u, ok) ==
    /\ Running
    /\ units[u].kind = "die" /\ units[u].pc = "cleanup"
    /\ LET q == HandlerReturned(units[u])
       IN Set(u, AfterF(q, IF ok THEN Nil ELSE Err("cleanup", <<"cannot", "cleanup">>)))
    /\ UNCHANGED <<loop, funcs, invoked, mutex, held, halted, nevts, trace>>

\* What is left of a goroutine once retry has returned and err is logged:
\* the event it handles.
Goroutine(p, pc) ==
    [NewUnit(p.kind, p.id, p.ctx, p.reg, p.n0) EXCEPT !.pc = pc, !.frames = <<>>]

\* cancellables.remove(evt.Actor.ID) in the goroutine: Lock
RemoveLock(u) ==
    /\ Running
    /\ units[u].pc = "remove_lock"
    /\ CanLock(mutex)
    /\ held' = held \cup {u}
    /\ Set(u, Goroutine(units[u], "remove_body"))
    /\ UNCHANGED <<loop, funcs, invoked, mutex, halted, nevts, trace>>

RemoveBody(u) ==
    /\ Running
    /\ units[u].pc = "remove_body"
    /\ funcs' = remove(funcs, invoked, units[u].id).funcs
    /\ Set(u, [units[u] EXCEPT !.pc = "remove_unlock"])
    /\ UNCHANGED <<loop, invoked, mutex, held, halted, nevts, trace>>

\* The goroutine ends with the deferred Unlock.
RemoveUnlock(u) ==
    /\ Running
    /\ units[u].pc = "remove_unlock"
    /\ held' = held \ {u}
    /\ Set(u, Goroutine(units[u], "done"))
    /\ UNCHANGED <<loop, funcs, invoked, mutex, halted, nevts, trace>>

\* A process reads or writes the map while another one is between its Lock
\* and its Unlock: a data race on the map, which the runtime may end with
\* "fatal error: concurrent map writes".
MapRace(u) ==
    /\ Running
    /\ \/ u >= 1 /\ units[u].pc = "remove_body"
       \/ u = 0 /\ loop.pc \in {"add_body", "cancel_body"}
    /\ held \ {u} # {}
    /\ Exit("fatal error: concurrent map writes")

----------------------------------------------------------------------------
(* The dispatch loop of ListenEventsForExported *)

\* No label, no attribute.
NoLabels == <<>>

\* The exporters RunExporter is called with.
Exporters ==
    {[Name |-> "exporter004", Image |-> i, TaskID |-> t, TaskName |-> "task-to-export"] :
        i \in Images, t \in Ids}

\* A mutant of LabelsOf: the second label is left out.
LabelsOfFirst(call) == [l \in {call.args[4]} |-> call.args[5]]

\* The labels of the container a ContainerCreate call asks for (config.Labels).
LabelsOf(call) ==
    [l \in {call.args[4], call.args[6]} |->
        IF l = call.args[4] THEN call.args[5] ELSE call.args[7]]

\* The labels of the containers the Create step of the pipeline makes; the
\* events of a container carry its labels as attributes.
CreatedLabels == {LabelsOf(createContainerCall(e)) : e \in Exporters}

NoEvent == [action |-> "", id |-> "", attrs |-> NoLabels]

\* The events of the stream: of monitored containers, and of containers
\* the pipeline created.
Events ==
    [action : {"start", "die", "kill"}, id : Ids, attrs : {NoLabels}]
        \cup [action : {"start", "die", "kill"}, id : Cids, attrs : CreatedLabels]

\* Line 78: _, ok := evt.Actor.Attributes[LABEL_EXPORTED_NAME]
IsExporterEvent(evt) == LABEL_EXPORTED_NAME \in DOMAIN evt.attrs

\* The caller cancels the context it passed in.
CancelCtx ==
    /\ Running
    /\ invoked[ParentCtx] = 0
    /\ \E u \in U : units[u].pc \notin {"done", "returned"}
    /\ invoked' = [invoked EXCEPT ![ParentCtx] = 1]
    /\ UNCHANGED <<units, loop, funcs, mutex, held, halted, nevts, trace>>

\* case err := <-errCh: panic(err)
StreamError ==
    /\ Running
    /\ loop.pc = "select"
    /\ Exit("panic")

\* case evt := <-evtCh, up to the call of add or cancel. The stream ends
\* with an error when its context is done. The first event is one of
\* container c1 or x1: the ids are interchangeable.
ReceiveEvent(evt) ==
    /\ Running
    /\ loop.pc = "select"
    /\ invoked[ParentCtx] = 0
    /\ nevts < MaxEvents
    /\ nevts = 0 => evt.id \in {"c1", "x1"}
    /\ nevts' = nevts + 1
    /\ IF IsExporterEvent(evt) \/ evt.action \notin {"start", "die"}
       THEN UNCHANGED loop
       ELSE loop' = [pc |-> IF evt.action = "start" THEN "add_lock" ELSE "cancel_lock",
                     evt |-> evt, ctx |-> 0]
    /\ UNCHANGED <<units, funcs, invoked, mutex, held, halted>>

Receive(evt) == ReceiveEvent(evt) /\ UNCHANGED trace

LoopLock ==
    /\ Running
    /\ loop.pc \in {"add_lock", "cancel_lock"}
    /\ CanLock(mutex)
    /\ held' = held \cup {0}
    /\ loop' = [loop EXCEPT !.pc = IF @ = "add_lock" THEN "add_body" ELSE "cancel_body"]
    /\ UNCHANGED <<units, funcs, invoked, mutex, halted, nevts, trace>>

\* cancellables.add(evt.Actor.ID, ctx): the context it returns is dropped.
AddBody ==
    /\ Running
    /\ loop.pc = "add_body"
    /\ LET r == add(funcs, invoked, loop.evt.id)
       IN /\ funcs' = r.funcs
          /\ invoked' = r.invoked
          /\ loop' = [loop EXCEPT !.pc = "unlock", !.ctx = r.ctx]
    /\ UNCHANGED <<units, mutex, held, halted, nevts, trace>>

\* cancellables.cancel(evt.Actor.ID)
CancelBody ==
    /\ Running
    /\ loop.pc = "cancel_body"
    /\ LET r == cancel(funcs, invoked, loop.evt.id)
       IN /\ funcs' = r.funcs
          /\ invoked' = r.invoked
          /\ loop' = [loop EXCEPT !.pc = "unlock"]
    /\ UNCHANGED <<units, mutex, held, halted, nevts, trace>>

LoopUnlock ==
    /\ Running
    /\ loop.pc = "unlock"
    /\ held' = held \ {0}
    /\ loop' = [loop EXCEPT !.pc = "go"]
    /\ UNCHANGED <<units, funcs, invoked, mutex, halted, nevts, trace>>

\* The context the goroutine is given: go func(ctx, evt) {...}(ctx, evt),
\* where ctx is the parameter of ListenEventsForExported.
goroutineCtx(registered) == ParentCtx

\* A mutant of Go: the handler is called in the loop, which goes on once
\* the units before it have ended.
GoWaits ==
    /\ Running
    /\ loop.pc = "go"
    /\ \A u \in U : units[u].pc = "done"
    /\ units' = Append(units,
                       NewUnit(loop.evt.action, loop.evt.id, ParentCtx, loop.ctx, retryTimes))
    /\ loop' = [pc |-> "select", evt |-> NoEvent, ctx |-> 0]
    /\ UNCHANGED <<funcs, invoked, mutex, held, halted, nevts, trace>>

\* go func(ctx context.Context, evt events.Message) {...}(ctx, evt)
Go ==
    /\ Running
    /\ loop.pc = "go"
    /\ units' = Append(units,
                       NewUnit(loop.evt.action, loop.evt.id,
                               goroutineCtx(loop.ctx), loop.ctx, retryTimes))
    /\ loop' = [pc |-> "select", evt |-> NoEvent, ctx |-> 0]
    /\ UNCHANGED <<funcs, invoked, mutex, held, halted, nevts, trace>>

Init ==
    /\ units = <<>>
    /\ loop = [pc |-> "select", evt |-> NoEvent, ctx |-> 0]
    /\ funcs = <<>>
    /\ invoked = <<0>>
    /\ mutex = 0
    /\ held = {}
    /\ halted = "no"
    /\ nevts = 0
    /\ trace = <<>>

Next ==
    \/ StreamError
    \/ CancelCtx
    \/ \E evt \in Events : Receive(evt)
    \/ LoopLock
    \/ AddBody
    \/ CancelBody
    \/ LoopUnlock
    \/ Go
    \/ \E u \in U : Sleep(u)
    \/ \E u \in U, how \in DispatchStartOutcomes : HandleStart(u, how)
    \/ \E u \in U : RunCancelled(u)
    \/ \E u \in U, out \in DispatchOutcomes : RunStep(u, out)
    \/ \E u \in U : RunFinished(u)
    \/ \E u \in U, how \in {"err", "notFound", "found"} : HandleStopFind(u, how)
    \/ \E u \in U, ok \in BOOLEAN : HandleStopCleanup(u, ok)
    \/ \E u \in U : RemoveLock(u)
    \/ \E u \in U : RemoveBody(u)
    \/ \E u \in U : RemoveUnlock(u)
    \/ \E u \in 0..Len(units) : MapRace(u)

Spec == Init /\ [][Next]_vars

----------------------------------------------------------------------------
(* RunExporter called on its own, as the tests of the backend call it:     *)
(* with an exporter and a context its caller may cancel at any time.       *)

Off == [pc |-> "off", evt |-> NoEvent, ctx |-> 0]

InitRun ==
    /\ \E e \in Exporters :
          units = <<[NewUnit("run", e.TaskID, ParentCtx, 0, 0)
                       EXCEPT !.pc = "run_select", !.frames = <<>>, !.exporter = e]>>
    /\ loop = Off
    /\ funcs = <<>>
    /\ invoked = <<0>>
    /\ mutex = 0
    /\ held = {}
    /\ halted = "no"
    /\ nevts = 0
    /\ trace = <<>>

NextRun ==
    \/ CancelCtx
    \/ \E u \in U : RunCancelled(u)
    \/ \E u \in U : RunIssue(u)
    \/ \E u \in U, out \in AllOutcomes : RunReturn(u, out)
    \/ \E u \in U : RunFinished(u)

SpecRun == InitRun /\ [][NextRun]_vars

----------------------------------------------------------------------------
(* retry called on its own, with every `times` up to MaxTimes and an f     *)
(* that fails or succeeds at will. The n-th invocation of f fails with an  *)
(* error that carries n.                                                   *)

FErrors(n) == {[Err("f", m) EXCEPT !.n = n] : m \in {<<"boom">>, <<"bang">>}}

\* err := f()
FCall(u, e) ==
    /\ Running
    /\ units[u].kind = "f" /\ units[u].pc = "retry"
    /\ e \in {Nil} \cup FErrors(Len(units[u].hist) + 1)
    /\ Set(u, AfterF(units[u], e))
    /\ UNCHANGED <<loop, funcs, invoked, mutex, held, halted, nevts, trace>>

InitRetry ==
    /\ \E t \in 0..MaxTimes : units = <<NewUnit("f", "", ParentCtx, 0, t)>>
    /\ loop = Off
    /\ funcs = <<>>
    /\ invoked = <<0>>
    /\ mutex = 0
    /\ held = {}
    /\ halted = "no"
    /\ nevts = 0
    /\ trace = <<>>

NextRetry ==
    \/ \E u \in U, e \in {Nil} \cup UNION {FErrors(n) : n \in 1..(MaxDepth + 1)} : FCall(u, e)
    \/ \E u \in U : Sleep(u)

SpecRetry == InitRetry /\ [][NextRetry]_vars

\* C7: for N >= 1, retry(N, delay, f) invokes f at most N times, never
\* after an invocation that succeeded, and returns nil if an invocation
\* succeeded and the error of the N-th invocation otherwise; every frame
\* of the recursion invokes f once. The dispatcher calls retry with N = 3.
C7_RetryIsBoundedLoop ==
    /\ retryTimes = 3
    /\ \A u \in U :
          LET p == units[u]
              N == p.n0
              n == Len(p.hist)
          IN (p.kind = "f" /\ N >= 1) =>
               /\ n <= N
               /\ Len(p.frames) <= N
               /\ \A i \in 1..(n - 1) : p.hist[i] # Nil
               /\ p.pc = "retry" => Len(p.frames) = n + 1
               /\ p.pc # "retry" => Len(p.frames) = n
               /\ p.pc = "sleep" => (n < N /\ p.hist[n] # Nil)
               /\ p.pc = "returned" =>
                    /\ n >= 1
                    /\ p.err = p.hist[n]
                    /\ p.err # Nil => (n = N /\ p.err.n = N)

\* C32: for every times >= 0, retry(times, interval, f) invokes f at most
\* max(1, times) times, and the times of no frame of its recursion has
\* wrapped below zero (to the largest uint, kept here as -1 and less).
C32_RetryNeverWraps ==
    \A u \in U :
        LET p == units[u]
        IN p.kind = "f" =>
             /\ Len(p.hist) <= (IF p.n0 > 1 THEN p.n0 ELSE 1)
             /\ \A i \in 1..Len(p.frames) : p.frames[i] >= 0

\* C7 witness: retry(3, ...) returned the error of the third invocation,
\* and retry(2, ...) returned nil after one failure.
C7_Witness ==
    \E u \in U :
        /\ units[u].kind = "f" /\ units[u].pc = "returned"
        /\ units[u].n0 = 3
        /\ Len(units[u].hist) = 3
        /\ units[u].err # Nil
        /\ units[u].err.n = 3

----------------------------------------------------------------------------
(* The registry called on its own by one caller: up to MaxOps operations,  *)
(* each on any key. trace keeps, for every operation, the context add      *)
(* returned and the map and the counts of invocations after it.            *)

RegOps == {"add", "cancel", "remove"}

RegOp(op, k) ==
    /\ Running
    /\ loop.pc = "off"
    /\ Len(trace) < MaxOps
    /\ CanLock(mutex)
    /\ LET r == CASE op = "add" -> add(funcs, invoked, k)
                   [] op = "cancel" -> cancel(funcs, invoked, k)
                   [] op = "remove" -> remove(funcs, invoked, k)
       IN /\ funcs' = r.funcs
          /\ invoked' = r.invoked
          /\ trace' = Append(trace, [op |-> op, k |-> k, ctx |-> r.ctx,
                                     funcs |-> r.funcs, invoked |-> r.invoked])
    /\ UNCHANGED <<units, loop, mutex, held, halted, nevts>>

InitReg ==
    /\ units = <<>>
    /\ loop = Off
    /\ funcs = <<>>
    /\ invoked = <<0>>
    /\ mutex = 0
    /\ held = {}
    /\ halted = "no"
    /\ nevts = 0
    /\ trace = <<>>

NextReg == \E op \in RegOps, k \in Ids : RegOp(op, k)

SpecReg == InitReg /\ [][NextReg]_vars

\* The map and the counts before the i-th operation of trace.
FuncsBefore(i) == IF i = 1 THEN <<>> ELSE trace[i - 1].funcs

InvokedBefore(i) == IF i = 1 THEN <<0>> ELSE trace[i - 1].invoked

\* Counts c2 are counts c1 with handle h invoked n more times; add may have
\* made new handles, never invoked.
Invokes(c1, c2, h, n) ==
    /\ Len(c2) >= Len(c1)
    /\ \A c \in 1..Len(c2) :
          c2[c] = (IF c <= Len(c1) THEN c1[c] ELSE 0) + (IF c = h THEN n ELSE 0)

\* C8: cancel(id) right after add(id) invokes the handle add stored exactly
\* once (and no other) and leaves no entry for id; cancel(id) and remove(id)
\* on an id with no entry change nothing and invoke no handle; remove(id)
\* on a present id drops that entry only and invokes no handle.
C8_RegistryAlgebra ==
    \A i \in 1..Len(trace) :
        LET t == trace[i]
            m == FuncsBefore(i)
            c == InvokedBefore(i)
        IN /\ (t.op = "cancel" /\ i > 1 /\ trace[i - 1].op = "add" /\ trace[i - 1].k = t.k)
                => /\ Invokes(c, t.invoked, trace[i - 1].ctx, 1)
                   /\ c[trace[i - 1].ctx] = 0
                   /\ t.k \notin DOMAIN t.funcs
                   /\ \A j \in (i + 1)..Len(trace) :
                         trace[j].invoked[trace[i - 1].ctx] = 1
           /\ (t.op \in {"cancel", "remove"} /\ t.k \notin DOMAIN m)
                => (t.funcs = m /\ t.invoked = c)
           /\ (t.op = "remove" /\ t.k \in DOMAIN m)
                => /\ DOMAIN t.funcs = (DOMAIN m) \ {t.k}
                   /\ \A x \in DOMAIN t.funcs : t.funcs[x] = m[x]
                   /\ t.invoked = c

\* C8 witness: add(c1), cancel(c1), and then cancel(c1) and remove(c1) on
\* the absent id.
C8_Witness ==
    /\ Len(trace) = 4
    /\ [i \in 1..4 |-> trace[i].op] = <<"add", "cancel", "cancel", "remove">>
    /\ \A i \in 1..4 : trace[i].k = "c1"
    /\ trace[4].invoked = <<0, 1>>

----------------------------------------------------------------------------
(* Properties of RunExporter, checked under SpecRun *)

FnSeq(calls) == [i \in 1..Len(calls) |-> calls[i].fn]

PipelineFns == <<"ImagePull", "ContainerCreate", "NetworkConnect", "ContainerStart">>

StepOrder == <<stepPullImage, stepCreate, stepConnect, stepStart, stepFinished>>

StepAfter(step) == StepOrder[1 + CHOOSE i \in 1..4 : StepOrder[i] = step]

\* The i-th answer of the runtime is a failure the pipeline does not tolerate.
Fails(hist, i) ==
    /\ hist[i].err # Nil
    /\ ~(i = 3 /\ Contains(hist[i].err.msg, <<"endpoint", "with", "name">>))

SameError(e, f) == e.kind = f.kind /\ e.msg = f.msg

\* C2: RunExporter checks its context before every step. From a state in
\* which the context is done, no step of RunExporter issues a runtime call,
\* and the step it takes at the top of its loop, whatever p.step is, is to
\* return nil; a call in flight is answered and its result taken (the step
\* advances) whether or not the context is done.
C2_CancelCheckedBeforeEveryStep ==
    [][\A u \in U :
         LET p == units[u]
             q == units'[u]
         IN p.kind = "run" =>
              /\ Done(invoked, p.ctx) => q.calls = p.calls
              /\ (Done(invoked, p.ctx) /\ p.pc = "run_select" /\ q # p)
                    => (q.pc = "returned" /\ q.err = Nil /\ q.step = p.step)
              /\ (p.pc = "run_call" /\ q # p)
                    => (Len(q.hist) = Len(p.hist) + 1 /\ q.step = StepAfter(p.step))]_vars

\* C2 witness: the context was cancelled while ContainerCreate was in
\* flight or right after it; RunExporter returned nil at the Connect step
\* with no NetworkConnect and no ContainerStart call.
C2_Witness ==
    \E u \in U :
        /\ units[u].kind = "run" /\ units[u].pc = "returned"
        /\ Done(invoked, units[u].ctx)
        /\ units[u].err = Nil
        /\ units[u].step = stepConnect
        /\ FnSeq(units[u].calls) = <<"ImagePull", "ContainerCreate">>

\* C4: when RunExporter has returned, no runtime call has failed and the
\* context is not done, it has issued exactly ImagePull (of the exporter's
\* image), ContainerCreate (network mode container:<monitored task id>),
\* NetworkConnect and ContainerStart, in that order, and returned nil.
C4_SuccessPath ==
    \A u \in U :
        LET p == units[u]
        IN (/\ p.kind = "run" /\ p.pc = "returned"
            /\ ~Done(invoked, p.ctx)
            /\ \A i \in 1..Len(p.hist) : p.hist[i].err = Nil)
           => /\ p.err = Nil
              /\ FnSeq(p.calls) = PipelineFns
              /\ p.calls[1].args = <<p.exporter.Image>>
              /\ SubSeq(p.calls[2].args, 2, 3) = <<"container:", p.exporter.TaskID>>
              /\ p.step = stepFinished

C4_Witness ==
    \E u \in U :
        /\ units[u].kind = "run" /\ units[u].pc = "returned"
        /\ ~Done(invoked, units[u].ctx)
        /\ Len(units[u].hist) = 4
        /\ \A i \in 1..4 : units[u].hist[i].err = Nil

C5_StepFailureReturned ==
    \A u \in U :
        LET p == units[u]
        IN p.kind = "run" =>
             \A i \in 1..Len(p.hist) :
                Fails(p.hist, i) =>
                    /\ i = Len(p.hist)
                    /\ p.pc = "returned"
                    /\ SameError(p.err, p.hist[i].err)
                    /\ FnSeq(p.calls) = SubSeq(PipelineFns, 1, i)

\* C5 witness: ContainerStart failed after a container was created.
C5_Witness ==
    \E u \in U :
        /\ units[u].kind = "run" /\ units[u].pc = "returned"
        /\ Len(units[u].hist) = 4
        /\ units[u].hist[2].id \in Cids
        /\ Fails(units[u].hist, 4)

\* C9: a failure of NetworkConnect whose message contains "endpoint with
\* name" does not end the pipeline (err stays nil and the next step is
\* Start); any other failure of NetworkConnect ends it with that error and
\* without a ContainerStart call.
C9_ConnectEndpointTolerated ==
    \A u \in U :
        LET p == units[u]
        IN (p.kind = "run" /\ Len(p.hist) >= 3 /\ p.hist[3].err # Nil) =>
             IF \E i \in 1..(Len(p.hist[3].err.msg) - 2) :
                    /\ p.hist[3].err.msg[i] = "endpoint"
                    /\ p.hist[3].err.msg[i + 1] = "with"
                    /\ p.hist[3].err.msg[i + 2] = "name"
             THEN /\ p.runErr = Nil \/ Len(p.hist) = 4
                  /\ Len(p.hist) = 3 => p.step = stepStart
                  /\ (p.pc = "returned" /\ Len(p.hist) = 3) => p.err = Nil
             ELSE /\ p.pc = "returned"
                  /\ SameError(p.err, p.hist[3].err)
                  /\ Len(p.hist) = 3
                  /\ \A j \in 1..Len(p.calls) : p.calls[j].fn # "ContainerStart"

\* C9 witness: NetworkConnect failed with "endpoint with name ..." and the
\* pipeline went on to start the container and finished without error.
C9_Witness ==
    \E u \in U :
        /\ units[u].kind = "run" /\ units[u].pc = "returned"
        /\ Len(units[u].hist) = 4
        /\ units[u].hist[3].err.msg = MsgEndpoint
        /\ units[u].step = stepFinished
        /\ units[u].err = Nil
        /\ Last(units[u].calls).fn = "ContainerStart"

----------------------------------------------------------------------------
(* Teardown of one sidecar: CleanupExporter and stopExporter, called on    *)
(* their own with either value of force. The container the runtime lists   *)
(* is a sidecar: it carries the label LABEL_EXPORTED_ID.                   *)

\* client.IsErrNotFound(err)
IsErrNotFound(e) == e.kind = "notFound"

\* The error whose message the test of CleanupExporter expects:
\* Exporter "<exporter id>" can't be stopped, exported container "<exported id>" still running.
newErrExportedTaskStillRunning(exporterCID, exportedCID) ==
    Err("stillRunning",
        <<"Exporter", exporterCID, "can't be stopped, exported container",
          exportedCID, "still running.">>)

\* A mutant of stopRefused: the refusal is made when force is set.
stopRefusedWhenForced(err, running, force) == err = Nil /\ running /\ force

\* A mutant of stopRefused: the state of the task is not looked at.
stopRefusedWhenFound(err, running, force) == err = Nil /\ ~force

\* stopExporter, line 326: err == nil && exported.State.Running && !force
stopRefused(err, running, force) == err = Nil /\ running /\ ~force

\* An answer of the runtime to a call of the teardown: the error, and for
\* ContainerList the number of containers and the first of them, for
\* ContainerInspect the state of the container.
Answer(err, n, ID, exported, running) ==
    [err |-> err, n |-> n, ID |-> ID, exported |-> exported, running |-> running]

OK == Answer(Nil, 0, "", "", FALSE)

Failed(msg) == Answer(Err("runtime", msg), 0, "", "", FALSE)

ListOutcomes ==
    {Failed(<<"cannot", "list">>)}
        \cup {Answer(Nil, 0, "", "", FALSE)}
        \cup {Answer(Nil, n, c, t, FALSE) : n \in 1..2, c \in Cids, t \in Ids}

InspectOutcomes ==
    {Failed(<<"cannot", "inspect">>),
     Answer(Err("notFound", <<"no", "such", "container">>), 0, "", "", FALSE),
     Answer(Nil, 0, "", "", TRUE),
     Answer(Nil, 0, "", "", FALSE)}

CallOutcomes == {OK, Failed(<<"runtime", "error">>)}

ErrExporterNotFound == Err("new", <<"exporter", "not", "found">>)

ErrMoreThanOne ==
    Err("new", <<"more", "than", "one", "container", "match", "the", "provided",
                 "exporter", "name">>)

\* A mutant of matchError: several matches are taken for one.
matchErrorZeroOnly(n) == IF n = 0 THEN ErrExporterNotFound ELSE Nil

\* CleanupExporter, lines 309-314: the error for len(c) matches, if any.
matchError(n) ==
    IF n = 0 THEN ErrExporterNotFound
    ELSE IF n > 1 THEN ErrMoreThanOne
    ELSE Nil

\* A mutant of Flag: the flag is not forwarded.
FlagUnset(b) == "false"

\* The force flag as an argument of a runtime call.
Flag(b) == IF b THEN "true" ELSE "false"

\* The error the bulk teardown tells from the others. Its constructor makes
\* the only error of this kind.
IsErrExportedTaskStillRunning(e) == e.kind = "stillRunning"

\* A mutant of bulkAborts: no error ends the loop.
bulkAbortsNever(e) == FALSE

\* CleanupExporters, line 285: err != nil && !IsErrExportedTaskStillRunning(err)
bulkAborts(e) == e # Nil /\ ~IsErrExportedTaskStillRunning(e)

\* Line 288: err != nil && IsErrExportedTaskStillRunning(err)
bulkRefused(e) == e # Nil /\ IsErrExportedTaskStillRunning(e)

\* A mutant of aggregate: the refusals are not reported.
aggregateNil(failed) == Nil

\* Lines 293-297: the result of the loop. The message is "failed to cleanup "
\* followed by the names, joined with ", ".
aggregate(failed) ==
    IF Len(failed) > 0
    THEN Err("new", <<"failed", "to", "cleanup">> \o failed)
    ELSE Nil

\* The bulk teardown p starts on the sidecar after the ones gone through,
\* or ends its loop.
BulkNext(p) ==
    LET i == Len(p.results) + 1
    IN IF i > Len(p.list)
       THEN [p EXCEPT !.err = aggregate(p.failed), !.pc = "returned",
                      !.cid = "", !.id = ""]
       ELSE [p EXCEPT !.pc = "stop_inspect", !.cid = p.list[i].ID,
                      !.id = p.list[i].exported]

\* stopExporter returned e to the loop of CleanupExporters: lines 284-291.
BulkAfterStop(p, e) ==
    LET i == Len(p.results) + 1
        from == IF i = 1 THEN 2 ELSE p.results[i - 1].to + 1
        r == [err |-> e, from |-> from, to |-> Len(p.calls)]
    IN IF bulkAborts(e)
       THEN [p EXCEPT !.err = e, !.pc = "returned"]
       ELSE BulkNext([p EXCEPT !.results = Append(@, r),
                               !.failed = IF bulkRefused(e)
                                          THEN Append(@, p.list[i].Name)
                                          ELSE @])

\* stopExporter (or CleanupExporter) returns e.
StopReturn(p, e) ==
    IF p.kind = "bulk"
    THEN BulkAfterStop(p, e)
    ELSE [p EXCEPT !.err = e, !.pc = "returned"]

\* CleanupExporter, lines 301-316.
CleanupList(u, out) ==
    /\ Running
    /\ units[u].kind = "cleanup" /\ units[u].pc = "list"
    /\ out \in ListOutcomes
    /\ LET p == [units[u] EXCEPT
                    !.calls = Append(@, Call("ContainerList", <<"name", units[u].exporter.Name>>)),
                    !.hist = Append(@, out)]
       IN Set(u, IF out.err # Nil THEN StopReturn(p, out.err)
                 ELSE IF matchError(out.n) # Nil
                      THEN StopReturn(p, matchError(out.n))
                 ELSE [p EXCEPT !.pc = "stop_inspect", !.cid = out.ID, !.id = out.exported])
    /\ UNCHANGED <<loop, funcs, invoked, mutex, held, halted, nevts, trace>>

\* stopExporter, lines 320-328.
StopInspect(u, out) ==
    /\ Running
    /\ units[u].kind \in {"cleanup", "bulk"} /\ units[u].pc = "stop_inspect"
    /\ out \in InspectOutcomes
    /\ LET p == [units[u] EXCEPT !.calls = Append(@, InspectCall(units[u].id)),
                                 !.hist = Append(@, out)]
       IN Set(u, IF out.err # Nil /\ ~IsErrNotFound(out.err)
                 THEN StopReturn(p, WithStack(out.err))
                 ELSE IF stopRefused(out.err, out.running, p.force)
                      THEN StopReturn(p, newErrExportedTaskStillRunning(p.cid, p.id))
                 ELSE [p EXCEPT !.pc = "stop_disconnect"])
    /\ UNCHANGED <<loop, funcs, invoked, mutex, held, halted, nevts, trace>>

\* A mutant of StopCall: the error of the call is not checked.
StopCallUnchecked(u, pc, call, next, out) ==
    /\ Running
    /\ units[u].kind \in {"cleanup", "bulk"} /\ units[u].pc = pc
    /\ out \in CallOutcomes
    /\ LET p == [units[u] EXCEPT !.calls = Append(@, call), !.hist = Append(@, out)]
       IN Set(u, IF next = "returned" THEN StopReturn(p, WithStack(out.err))
                 ELSE [p EXCEPT !.pc = next])
    /\ UNCHANGED <<loop, funcs, invoked, mutex, held, halted, nevts, trace>>

\* One call of stopExporter after the inspection, and the check of err.
StopCall(u, pc, call, next, out) ==
    /\ Running
    /\ units[u].kind \in {"cleanup", "bulk"} /\ units[u].pc = pc
    /\ out \in CallOutcomes
    /\ LET p == [units[u] EXCEPT !.calls = Append(@, call), !.hist = Append(@, out)]
       IN Set(u, IF out.err # Nil
                 THEN StopReturn(p, WithStack(out.err))
                 ELSE IF next = "returned" THEN StopReturn(p, Nil)
                 ELSE [p EXCEPT !.pc = next])
    /\ UNCHANGED <<loop, funcs, invoked, mutex, held, halted, nevts, trace>>

\* Lines 330-333.
StopDisconnect(u, out) ==
    StopCall(u, "stop_disconnect",
             Call("NetworkDisconnect", <<promNetwork, units[u].cid, Flag(units[u].force)>>),
             "stop_stop", out)

\* Lines 336-339.
StopStop(u, out) ==
    StopCall(u, "stop_stop", Call("ContainerStop", <<units[u].cid>>), "stop_remove", out)

\* Lines 341-356.
StopRemove(u, out) ==
    StopCall(u, "stop_remove",
             Call("ContainerRemove", <<units[u].cid, Flag(units[u].force)>>),
             "returned", out)

InitStop ==
    /\ \E force \in BOOLEAN :
          units = <<[NewUnit("cleanup", "", ParentCtx, 0, 0)
                       EXCEPT !.pc = "list", !.frames = <<>>, !.force = force,
                              !.exporter = [NoExporter EXCEPT !.Name = "exporter001"]]>>
    /\ loop = Off
    /\ funcs = <<>>
    /\ invoked = <<0>>
    /\ mutex = 0
    /\ held = {}
    /\ halted = "no"
    /\ nevts = 0
    /\ trace = <<>>

NextStop ==
    \/ \E u \in U, out \in ListOutcomes : CleanupList(u, out)
    \/ \E u \in U, out \in InspectOutcomes : StopInspect(u, out)
    \/ \E u \in U, out \in CallOutcomes : StopDisconnect(u, out)
    \/ \E u \in U, out \in CallOutcomes : StopStop(u, out)
    \/ \E u \in U, out \in CallOutcomes : StopRemove(u, out)

SpecStop == InitStop /\ [][NextStop]_vars

TeardownFns == {"NetworkDisconnect", "ContainerStop", "ContainerRemove"}

\* C10: a single teardown with force = false whose inspection of the
\* monitored container succeeds and finds it running returns a "still
\* running" error that names the sidecar's id and the monitored container's
\* id, and has issued no NetworkDisconnect, ContainerStop or ContainerRemove.
C10_StillRunningRefused ==
    \A u \in U :
        LET p == units[u]
        IN (/\ p.kind = "cleanup"
            /\ ~p.force
            /\ Len(p.hist) >= 2
            /\ p.hist[2].err = Nil
            /\ p.hist[2].running)
           => /\ p.pc = "returned"
              /\ p.err.kind = "stillRunning"
              /\ Contains(p.err.msg, <<"still running.">>)
              /\ Contains(p.err.msg, <<p.hist[1].ID>>)
              /\ Contains(p.err.msg, <<p.hist[1].exported>>)
              /\ \A i \in 1..Len(p.calls) : p.calls[i].fn \notin TeardownFns
              /\ FnSeq(p.calls) = <<"ContainerList", "ContainerInspect">>
              /\ p.calls[2].args = <<p.hist[1].exported>>

\* C10 witness: the teardown of sidecar x2 of the running container c1,
\* without force, has returned.
C10_Witness ==
    \E u \in U :
        /\ units[u].kind = "cleanup" /\ units[u].pc = "returned"
        /\ ~units[u].force
        /\ Len(units[u].hist) = 2
        /\ units[u].hist[1].ID = "x2" /\ units[u].hist[1].exported = "c1"
        /\ units[u].hist[2].err = Nil /\ units[u].hist[2].running
        /\ units[u].err.kind = "stillRunning"

----------------------------------------------------------------------------
(* Bulk teardown: CleanupExporters called on its own, with either value of *)
(* force, on a runtime that lists up to MaxList of the sidecars below.     *)

MaxList == 3

Sidecars ==
    {[ID |-> "x1", Name |-> "exporter001", exported |-> "c1"],
     [ID |-> "x2", Name |-> "exporter002", exported |-> "c2"],
     [ID |-> "x3", Name |-> "exporter003", exported |-> "c1"]}

\* The lists of sidecars, none listed twice.
SidecarLists ==
    UNION {{l \in [1..n -> Sidecars] : \A i, j \in 1..n : l[i] = l[j] => i = j} :
              n \in 0..MaxList}

\* CleanupExporters, lines 268-280.
BulkList(u, err, l) ==
    /\ Running
    /\ units[u].kind = "bulk" /\ units[u].pc = "list"
    /\ LET p == [units[u] EXCEPT
                    !.calls = Append(@, Call("ContainerList",
                                             <<"all", "label", LABEL_EXPORTED_ID>>)),
                    !.hist = Append(@, Answer(err, Len(l), "", "", FALSE))]
       IN Set(u, IF err # Nil
                 THEN [p EXCEPT !.err = WithStack(err), !.pc = "returned"]
                 ELSE BulkNext([p EXCEPT !.list = l]))
    /\ UNCHANGED <<loop, funcs, invoked, mutex, held, halted, nevts, trace>>

InitBulk ==
    /\ \E force \in BOOLEAN :
          units = <<[NewUnit("bulk", "", ParentCtx, 0, 0)
                       EXCEPT !.pc = "list", !.frames = <<>>, !.force = force]>>
    /\ loop = Off
    /\ funcs = <<>>
    /\ invoked = <<0>>
    /\ mutex = 0
    /\ held = {}
    /\ halted = "no"
    /\ nevts = 0
    /\ trace = <<>>

NextBulk ==
    \/ \E u \in U : BulkList(u, Failed(<<"cannot", "list">>).err, <<>>)
    \/ \E u \in U, l \in SidecarLists : BulkList(u, Nil, l)
    \/ \E u \in U, out \in InspectOutcomes : StopInspect(u, out)
    \/ \E u \in U, out \in CallOutcomes : StopDisconnect(u, out)
    \/ \E u \in U, out \in CallOutcomes : StopStop(u, out)
    \/ \E u \in U, out \in CallOutcomes : StopRemove(u, out)

SpecBulk == InitBulk /\ [][NextBulk]_vars

\* The calls stopExporter makes once it proceeds, for sidecar cid.
TeardownCalls(cid, force) ==
    <<Call("NetworkDisconnect", <<promNetwork, cid, IF force THEN "true" ELSE "false">>),
      Call("ContainerStop", <<cid>>),
      Call("ContainerRemove", <<cid, IF force THEN "true" ELSE "false">>)>>

\* The teardown of p proceeded as far as its calls were answered: its calls
\* after the inspection are the first ones of TeardownCalls, each issued once
\* the one before it succeeded; it has returned only with the error of a
\* failed call or, after the three calls, with nil.
Proceeds(p) ==
    LET n == Len(p.hist) - 2
    IN /\ p.pc # "returned" => Len(p.calls) = Len(p.hist)
       /\ SubSeq(p.calls, 3, Len(p.calls)) = SubSeq(TeardownCalls(p.hist[1].ID, p.force), 1, n)
       /\ \A i \in 3..(Len(p.hist) - 1) : p.hist[i].err = Nil
       /\ p.pc = "returned" =>
             /\ n >= 1
             /\ p.hist[n + 2].err # Nil => SameError(p.err, p.hist[n + 2].err)
             /\ p.hist[n + 2].err = Nil => (n = 3 /\ p.err = Nil)
       /\ p.pc # "returned" => n < 3

\* C11 as stated: whenever the monitored task is not found or force is true,
\* the teardown proceeds.
C11_ProceedsWheneverForced ==
    \A u \in U :
        LET p == units[u]
        IN (/\ p.kind = "cleanup"
            /\ Len(p.hist) >= 2
            /\ IsErrNotFound(p.hist[2].err) \/ p.force)
           => Proceeds(p)

\* C11, amended: whenever the inspection of the monitored task says not
\* found, or succeeds while force is true (the task running or not), the
\* teardown issues for the sidecar's id one NetworkDisconnect, then one
\* ContainerStop, then one ContainerRemove with the caller's force flag, and
\* returns nil when the three succeed. (An inspection that fails otherwise
\* ends the teardown with that error, whatever force is.)
C11_ProceedsUnlessInspectFails ==
    \A u \in U :
        LET p == units[u]
        IN (/\ p.kind = "cleanup"
            /\ Len(p.hist) >= 2
            /\ \/ IsErrNotFound(p.hist[2].err)
               \/ p.force /\ p.hist[2].err = Nil)
           => Proceeds(p)

\* C11 witness: a forced teardown of the sidecar of a running task made
\* its three calls and returned nil.
C11_Witness ==
    \E u \in U :
        /\ units[u].kind = "cleanup" /\ units[u].pc = "returned"
        /\ units[u].force
        /\ Len(units[u].hist) = 5
        /\ units[u].hist[2].running
        /\ units[u].err = Nil
        /\ FnSeq(units[u].calls) =
              <<"ContainerList", "ContainerInspect", "NetworkDisconnect",
                "ContainerStop", "ContainerRemove">>

\* C12: a single teardown whose name matches no container returns a
\* not-found error, and one whose name matches several containers returns an
\* ambiguity error; in both cases ContainerList is the only call issued.
C12_ZeroOrManyMatches ==
    \A u \in U :
        LET p == units[u]
        IN (/\ p.kind = "cleanup"
            /\ Len(p.hist) >= 1
            /\ p.hist[1].err = Nil
            /\ p.hist[1].n # 1)
           => /\ p.pc = "returned"
              /\ FnSeq(p.calls) = <<"ContainerList">>
              /\ p.hist[1].n = 0 => p.err.msg = <<"exporter", "not", "found">>
              /\ p.hist[1].n > 1 =>
                    Contains(p.err.msg, <<"more", "than", "one", "container", "match">>)

\* C12 witness: two containers matched the name.
C12_Witness ==
    \E u \in U :
        /\ units[u].kind = "cleanup" /\ units[u].pc = "returned"
        /\ Len(units[u].hist) = 1
        /\ units[u].hist[1].n = 2
        /\ units[u].err = ErrMoreThanOne

\* No call the bulk teardown p issued has failed: an inspection that says
\* not found is an answer, not a failure.
NoCallFailed(p) ==
    \A j \in 1..Len(p.hist) : p.hist[j].err = Nil \/ IsErrNotFound(p.hist[j].err)

\* The i-th sidecar listed was refused: its monitored task was inspected
\* running and force is false.
Refused(p, i) ==
    LET a == p.hist[p.results[i].from]
    IN a.err = Nil /\ a.running /\ ~p.force

\* The names of the sidecars refused among the first n listed, in order.
RECURSIVE RefusedNames(_, _)
RefusedNames(p, n) ==
    IF n = 0 THEN <<>>
    ELSE IF Refused(p, n)
         THEN Append(RefusedNames(p, n - 1), p.list[n].Name)
         ELSE RefusedNames(p, n - 1)

C14_BulkAbortsOnOtherErrors ==
    \A u \in U :
        LET p == units[u]
        IN p.kind = "bulk" =>
             \A j \in 1..Len(p.hist) :
                (p.hist[j].err # Nil /\ ~IsErrNotFound(p.hist[j].err)) =>
                    /\ j = Len(p.hist)
                    /\ Len(p.calls) = j
                    /\ p.pc = "returned"
                    /\ SameError(p.err, p.hist[j].err)
                    /\ ~IsErrExportedTaskStillRunning(p.err)

\* C14 witness: the first sidecar was refused, ContainerStop failed for the
\* second one, and a third one was listed.
C14_Witness ==
    \E u \in U :
        LET p == units[u]
        IN /\ p.kind = "bulk" /\ p.pc = "returned"
           /\ Len(p.list) = 3
           /\ p.failed = <<p.list[1].Name>>
           /\ Last(p.calls) = Call("ContainerStop", <<p.list[2].ID>>)
           /\ Last(p.hist).err # Nil
           /\ SameError(p.err, Last(p.hist).err)

\* C31: a single teardown without force whose inspection succeeds and
\* finds the monitored task not running proceeds as in the not-found case:
\* one NetworkDisconnect, one ContainerStop, one ContainerRemove for the
\* sidecar's id, nil when the three succeed; and a teardown returns the
\* "still running" refusal only when force is false and the inspection
\* succeeded and found the task running.
C31_RefusesOnlyWhenRunning ==
    \A u \in U :
        LET p == units[u]
        IN p.kind = "cleanup" =>
             /\ (/\ ~p.force
                 /\ Len(p.hist) >= 2
                 /\ p.hist[2].err = Nil
                 /\ ~p.hist[2].running)
                => (Proceeds(p) /\ p.err.kind # "stillRunning")
             /\ p.err.kind = "stillRunning"
                => /\ ~p.force
                   /\ Len(p.hist) = 2
                   /\ p.hist[2].err = Nil
                   /\ p.hist[2].running

\* C31 witness: a teardown without force of the sidecar of a task that is
\* there and not running made its three calls and returned nil.
C31_Witness ==
    \E u \in U :
        LET p == units[u]
        IN /\ p.kind = "cleanup" /\ p.pc = "returned"
           /\ ~p.force
           /\ Len(p.hist) = 5
           /\ p.hist[2].err = Nil /\ ~p.hist[2].running
           /\ p.err = Nil
           /\ SubSeq(p.calls, 3, 5) = TeardownCalls(p.hist[1].ID, FALSE)

\* The calls of a single teardown, in order.
TeardownOrder ==
    <<"ContainerList", "ContainerInspect", "NetworkDisconnect", "ContainerStop",
      "ContainerRemove">>

\* C28: in a single teardown the calls are issued in the order inspect,
\* disconnect, stop, remove, and the first of them that fails (for the
\* inspection: with an error other than not-found) is the last call issued:
\* the teardown has returned that error.
C28_FirstFailureEndsTeardown ==
    \A u \in U :
        LET p == units[u]
        IN p.kind = "cleanup" =>
             /\ FnSeq(p.calls) = SubSeq(TeardownOrder, 1, Len(p.calls))
             /\ Len(p.hist) = Len(p.calls)
             /\ \A i \in 2..Len(p.hist) :
                   (p.hist[i].err # Nil /\ ~(i = 2 /\ p.hist[i].err.kind = "notFound"))
                   => /\ Len(p.calls) = i
                      /\ p.pc = "returned"
                      /\ SameError(p.err, p.hist[i].err)

\* C28 witness: the stop of the sidecar failed; the teardown has returned
\* that error after the calls list, inspect, disconnect and stop.
C28_Witness ==
    \E u \in U :
        LET p == units[u]
        IN /\ p.kind = "cleanup"
           /\ p.pc = "returned"
           /\ Len(p.calls) = 4
           /\ Last(p.calls).fn = "ContainerStop"
           /\ p.hist[4].err # Nil
           /\ SameError(p.err, p.hist[4].err)

----------------------------------------------------------------------------
(* The start handling on its own: retry(3, 5, handler) of one start event, *)
(* with every container the inspection can show.                           *)

InitStart ==
    /\ units = <<NewUnit("start", "c1", ParentCtx, 0, retryTimes)>>
    /\ loop = Off
    /\ funcs = <<>>
    /\ invoked = <<0>>
    /\ mutex = 0
    /\ held = {}
    /\ halted = "no"
    /\ nevts = 0
    /\ trace = <<>>

NextStart ==
    \/ CancelCtx
    \/ \E u \in U, in \in StartInputs : HandleStartFrom(u, in)
    \/ \E u \in U : Sleep(u)
    \/ \E u \in U : RunCancelled(u)
    \/ \E u \in U, out \in DispatchOutcomes : RunStep(u, out)
    \/ \E u \in U : RunFinished(u)

SpecStart == InitStart /\ [][NextStart]_vars

\* The attempt was given a container with an exporter label that cannot be
\* rendered, or whose rendered type has no definition or one that fails.
LabelFails(in) ==
    /\ in.inspect = "ok"
    /\ in.label # ""
    /\ in.label = "{{" \/ in.label # "redis" \/ in.fails

\* C20: an attempt of the start handling on a container whose exporter
\* label cannot be rendered or looked up ends with an error (retry goes on or
\* returns an error), and RunExporter is not entered.
C20_LabelFailureIsError ==
    \A u \in U :
        LET p == units[u]
        IN (p.kind = "start" /\ p.hist # <<>> /\ LabelFails(Last(p.hist))) =>
             /\ p.pc \in {"sleep", "remove_lock"}
             /\ p.pc = "remove_lock" => p.err # Nil

\* The calls the start handling makes to resolve the exporter and to run
\* the pipeline.
ResolverFns == {"FindMatchingExporter", "FromPredefinedExporter"}

\* C29: an attempt of the start handling whose inspection reports
\* not-found is the last attempt: the handler returns nil, retry returns nil
\* without sleeping or calling the handler again, and the attempt has called
\* nothing but the inspection (no resolver call, and the unit is not in the
\* pipeline and holds no call of it).
C29_NotFoundIsBenign ==
    \A u \in U :
        LET p == units[u]
        IN p.kind = "start" =>
             \A i \in 1..Len(p.hist) :
                p.hist[i].inspect = "notFound"
                => /\ i = Len(p.hist)
                   /\ p.pc = "remove_lock"
                   /\ p.err = Nil
                   /\ p.runErr = Nil
                   /\ p.hist[i].calls = <<InspectCall(p.id)>>
                   /\ \A k \in 1..Len(p.hist[i].calls) :
                         p.hist[i].calls[k].fn \notin ResolverFns
                   /\ \A k \in 1..Len(p.calls) :
                         p.calls[k].fn \notin {PipelineFns[j] : j \in 1..Len(PipelineFns)}

\* C29 witness: the first attempt failed on the inspection, the second
\* found the container gone, and retry has returned nil.
C29_Witness ==
    \E u \in U :
        LET p == units[u]
        IN /\ p.kind = "start"
           /\ Len(p.hist) = 2
           /\ p.hist[1].inspect = "err"
           /\ p.hist[2].inspect = "notFound"
           /\ p.pc = "remove_lock"
           /\ p.err = Nil

----------------------------------------------------------------------------
(* The resolver of the docker backend: resolveExporters and                *)
(* getExporterName. A name is a sequence of pieces: "/redis" is            *)
(* <<"/", "redis">>.                                                       *)

LABEL_EXPORTER == "autoexporter.exporter"

\* The tasks resolved: models.TaskToExport{ID, Name, Labels}.
Tasks ==
    {[ID |-> "c1", Name |-> <<"/", "redis">>, Labels |-> NoLabels],
     [ID |-> "c2", Name |-> <<"/", "web">>, Labels |-> NoLabels],
     [ID |-> "c2", Name |-> <<"/", "web">>, Labels |-> [l \in {LABEL_EXPORTER} |-> "mysql"]],
     [ID |-> "c3", Name |-> <<"/", "/", "db">>, Labels |-> NoLabels],
     [ID |-> "c4", Name |-> <<"cache">>, Labels |-> NoLabels]}

\* The catalog behind b.finder: the keys of the predefined exporters that
\* match a task. It looks at the name of the task only.
CatalogKeys(t) ==
    CASE Last(t.Name) = "redis" -> {"redis"}
      [] Last(t.Name) = "web" -> {"php", "nginx"}
      [] Last(t.Name) = "db" -> {"mysql"}
      [] OTHER -> {}

\* b.finder.FindMatchingExporters(t): a map from key to the exporter, whose
\* name the resolver sets.
FindMatchingExporters(t) ==
    [k \in CatalogKeys(t) |->
        [Name |-> <<>>, ExporterType |-> k, Image |-> k, TaskID |-> t.ID, TaskName |-> t.Name]]

\* strings.TrimLeft(s, "/"): every leading "/" is removed.
RECURSIVE TrimLeft(_)
TrimLeft(s) == IF s # <<>> /\ Head(s) = "/" THEN TrimLeft(Tail(s)) ELSE s

\* A mutant of getExporterName: the name of the task is used as it is.
getExporterNameUntrimmed(exporterType, tname) ==
    <<"/", "exporter", ".", exporterType, ".">> \o tname

\* fmt.Sprintf("/exporter.%s.%s", exporterType, strings.TrimLeft(tname, "/"))
getExporterName(exporterType, tname) ==
    <<"/", "exporter", ".", exporterType, ".">> \o TrimLeft(tname)

\* The orders in which `for pname, m := range matching` can go through the
\* map: Go leaves the order of the iteration over a map open.
RangeOrders(keys) ==
    {o \in [1..Cardinality(keys) -> keys] : \A i, j \in DOMAIN o : o[i] = o[j] => i = j}

\* A mutant of resolveExporters: the exporters are not given their name.
resolveExportersUnnamed(t, o) == [i \in DOMAIN o |-> FindMatchingExporters(t)[o[i]]]

\* resolveExporters(ctx, t), when the map is gone through in order o.
resolveExporters(t, o) ==
    [i \in DOMAIN o |->
        [FindMatchingExporters(t)[o[i]] EXCEPT !.Name = getExporterName(o[i], t.Name)]]

\* One call of resolveExporters; trace keeps the task and the result.
Resolve(t, o) ==
    /\ Running
    /\ loop.pc = "off"
    /\ Len(trace) < MaxOps
    /\ o \in RangeOrders(CatalogKeys(t))
    /\ trace' = Append(trace, [t |-> t, exporters |-> resolveExporters(t, o)])
    /\ UNCHANGED <<units, loop, funcs, invoked, mutex, held, halted, nevts>>

NextResolve ==
    \E t \in Tasks, o \in UNION {RangeOrders(CatalogKeys(x)) : x \in Tasks} : Resolve(t, o)

SpecResolve == InitReg /\ [][NextResolve]_vars

----------------------------------------------------------------------------
(* Missing-exporter detection: FindMissingExporters called on its own, on  *)
(* a runtime that lists up to MaxList of the containers below.             *)

SidecarLabels(id, name) ==
    [l \in {LABEL_EXPORTED_ID, LABEL_EXPORTED_NAME} |->
        IF l = LABEL_EXPORTED_ID THEN id ELSE name]

Containers ==
    {[ID |-> "c1", Names |-> <<<<"/", "redis">>>>, Labels |-> NoLabels],
     [ID |-> "c2", Names |-> <<<<"/", "web">>>>, Labels |-> NoLabels],
     [ID |-> "c4", Names |-> <<<<"/", "cache">>>>, Labels |-> NoLabels],
     [ID |-> "x1", Names |-> <<<<"/", "exporter", ".", "redis", ".", "redis">>>>,
      Labels |-> SidecarLabels("c1", "redis")],
     [ID |-> "x2", Names |-> <<<<"/", "exporter", ".", "php", ".", "web">>>>,
      Labels |-> SidecarLabels("c2", "web")]}

\* The lists of containers, none listed twice.
ContainerLists ==
    UNION {{l \in [1..n -> Containers] : \A i, j \in 1..n : l[i] = l[j] => i = j} :
              n \in 0..MaxList}

\* Lines 203-208: the names of all the containers listed.
containerNames(l) == UNION {{l[i].Names[j] : j \in 1..Len(l[i].Names)} : i \in 1..Len(l)}

\* Line 216: the container is an exporter.
IsExporter(labels) == LABEL_EXPORTED_NAME \in DOMAIN labels

\* Line 220
TaskToExport(c) == [ID |-> c.ID, Name |-> c.Names[1], Labels |-> c.Labels]

\* A mutant of isMissing: the names of the containers are not looked at.
isMissingAlways(name, names) == TRUE

\* Line 224: no container has the name of the exporter.
isMissing(name, names) == name \notin names

\* Lines 223-227: missing, after the exporters es were gone through.
RECURSIVE appendMissing(_, _, _)
appendMissing(missing, es, names) ==
    IF es = <<>> THEN missing
    ELSE appendMissing(IF isMissing(Head(es).Name, names)
                       THEN Append(missing, Head(es))
                       ELSE missing,
                       Tail(es), names)

\* Lines 198-210
FindList(u, err, l) ==
    /\ Running
    /\ units[u].kind = "find" /\ units[u].pc = "list"
    /\ LET p == [units[u] EXCEPT !.calls = Append(@, Call("ContainerList", <<>>)),
                                 !.hist = Append(@, Answer(err, Len(l), "", "", FALSE))]
       IN Set(u, IF err # Nil
                 THEN [p EXCEPT !.err = WithStack(err), !.pc = "returned"]
                 ELSE [p EXCEPT !.list = l, !.pc = "range"])
    /\ UNCHANGED <<loop, funcs, invoked, mutex, held, halted, nevts, trace>>

\* Lines 215-218: the next container is an exporter.
FindSkip(u) ==
    /\ Running
    /\ units[u].kind = "find" /\ units[u].pc = "range"
    /\ units[u].i < Len(units[u].list)
    /\ IsExporter(units[u].list[units[u].i + 1].Labels)
    /\ Set(u, [units[u] EXCEPT !.i = @ + 1])
    /\ UNCHANGED <<loop, funcs, invoked, mutex, held, halted, nevts, trace>>

\* Lines 220-227: the next container is resolved, the map of its matches
\* being gone through in order o.
FindResolve(u, o) ==
    /\ Running
    /\ units[u].kind = "find" /\ units[u].pc = "range"
    /\ units[u].i < Len(units[u].list)
    /\ ~IsExporter(units[u].list[units[u].i + 1].Labels)
    /\ LET p == units[u]
           t == TaskToExport(p.list[p.i + 1])
       IN /\ o \in RangeOrders(CatalogKeys(t))
          /\ Set(u, [p EXCEPT
                       !.i = @ + 1,
                       !.results = Append(@, [t |-> t, exporters |-> resolveExporters(t, o)]),
                       !.missing = appendMissing(@, resolveExporters(t, o),
                                                 containerNames(p.list))])
    /\ UNCHANGED <<loop, funcs, invoked, mutex, held, halted, nevts, trace>>

\* Line 230: return missing, nil
FindReturn(u) ==
    /\ Running
    /\ units[u].kind = "find" /\ units[u].pc = "range"
    /\ units[u].i = Len(units[u].list)
    /\ Set(u, [units[u] EXCEPT !.err = Nil, !.pc = "returned"])
    /\ UNCHANGED <<loop, funcs, invoked, mutex, held, halted, nevts, trace>>

InitFind ==
    /\ units = <<[NewUnit("find", "", ParentCtx, 0, 0) EXCEPT !.pc = "list", !.frames = <<>>]>>
    /\ loop = Off
    /\ funcs = <<>>
    /\ invoked = <<0>>
    /\ mutex = 0
    /\ held = {}
    /\ halted = "no"
    /\ nevts = 0
    /\ trace = <<>>

NextFind ==
    \/ \E u \in U : FindList(u, Failed(<<"cannot", "list">>).err, <<>>)
    \/ \E u \in U, l \in ContainerLists : FindList(u, Nil, l)
    \/ \E u \in U : FindSkip(u)
    \/ \E u \in U, o \in UNION {RangeOrders(CatalogKeys(x)) : x \in Tasks} : FindResolve(u, o)
    \/ \E u \in U : FindReturn(u)

SpecFind == InitFind /\ [][NextFind]_vars

\* The listed containers that are not sidecars, in the order of the list.
RECURSIVE NotSidecars(_)
NotSidecars(l) ==
    IF l = <<>> THEN <<>>
    ELSE IF LABEL_EXPORTED_NAME \in DOMAIN Head(l).Labels
         THEN NotSidecars(Tail(l))
         ELSE <<Head(l)>> \o NotSidecars(Tail(l))

\* How often e is among the exporters the resolver yielded.
Yielded(p, e) ==
    Cardinality({rk \in UNION {{<<r, k>> : k \in 1..Len(p.results[r].exporters)} :
                                   r \in 1..Len(p.results)} :
                    p.results[rk[1]].exporters[rk[2]] = e})

\* C15: when missing-exporter detection has returned without error, the
\* resolver was called once for each listed container that is not a sidecar
\* (and for no other), and the result holds exactly the exporters it yielded
\* whose name is not a name of a listed container: each once, no other.
C15_MissingExporters ==
    \A u \in U :
        LET p == units[u]
            names == UNION {{p.list[i].Names[j] : j \in 1..Len(p.list[i].Names)} :
                               i \in 1..Len(p.list)}
            tasks == NotSidecars(p.list)
        IN (p.kind = "find" /\ p.pc = "returned" /\ p.err = Nil) =>
             /\ Len(p.results) = Len(tasks)
             /\ \A r \in 1..Len(tasks) :
                   /\ p.results[r].t.ID = tasks[r].ID
                   /\ p.results[r].t.Name = tasks[r].Names[1]
             /\ \A m \in 1..Len(p.missing) :
                   /\ Yielded(p, p.missing[m]) = 1
                   /\ p.missing[m].Name \notin names
                   /\ \A n \in 1..Len(p.missing) : p.missing[n] = p.missing[m] => n = m
             /\ \A r \in 1..Len(p.results) :
                   \A k \in 1..Len(p.results[r].exporters) :
                       LET e == p.results[r].exporters[k]
                       IN e.Name \notin names => \E m \in 1..Len(p.missing) : p.missing[m] = e

\* C15 witness: /web, which the catalog matches under php and nginx, is
\* listed with its sidecar /exporter.php.web, and /redis without a sidecar:
\* the exporters missing are the nginx one of /web and the redis one.
C15_Witness ==
    \E u \in U :
        LET p == units[u]
        IN /\ p.kind = "find" /\ p.pc = "returned" /\ p.err = Nil
           /\ Len(p.list) = 3
           /\ {p.list[i].ID : i \in 1..3} = {"c1", "c2", "x2"}
           /\ {p.missing[m].Name : m \in 1..Len(p.missing)} =
                 {<<"/", "exporter", ".", "nginx", ".", "web">>,
                  <<"/", "exporter", ".", "redis", ".", "redis">>}
           /\ Len(p.missing) = 2

----------------------------------------------------------------------------
(* The containers the pipeline creates, as the dispatcher and the          *)
(* missing-exporter detection meet them: the runtime lists them and sends  *)
(* their start and die events, with the labels the Create step gave them.  *)

\* The containers the pipeline created, as the runtime lists them.
CreatedContainers ==
    {[ID |-> "x1", Names |-> <<<<"/", e.Name>>>>, Labels |-> LabelsOf(createContainerCall(e))] :
        e \in Exporters}

\* The lists of up to two containers among the created ones and a task.
CreatedLists ==
    {l \in ContainerLists :
        /\ Len(l) <= 2
        /\ \A i \in 1..Len(l) : l[i].ID \in {"c1", "x1"}}
    \cup {<<c>> : c \in CreatedContainers}
    \cup {<<c, d>> : c \in CreatedContainers,
                     d \in {x \in Containers : x.ID = "c1"} \cup CreatedContainers}

\* An event is taken from the stream; trace keeps the last one taken.
TakeEvent(evt) ==
    /\ ReceiveEvent(evt)
    /\ trace' = <<evt>>

\* The detection and the dispatcher share nothing: the detection is run
\* first, then the events are taken.
NextSidecar ==
    \/ \E u \in U, l \in CreatedLists : FindList(u, Nil, l)
    \/ \E u \in U : FindSkip(u)
    \/ \E u \in U, o \in UNION {RangeOrders(CatalogKeys(x)) : x \in Tasks} : FindResolve(u, o)
    \/ \E u \in U : FindReturn(u)
    \/ \E evt \in Events : units[1].pc = "returned" /\ TakeEvent(evt)
    \/ LoopLock
    \/ AddBody
    \/ CancelBody
    \/ LoopUnlock
    \/ Go

InitSidecar ==
    /\ units = <<[NewUnit("find", "", ParentCtx, 0, 0) EXCEPT !.pc = "list", !.frames = <<>>]>>
    /\ loop = [pc |-> "select", evt |-> NoEvent, ctx |-> 0]
    /\ funcs = <<>>
    /\ invoked = <<0>>
    /\ mutex = 0
    /\ held = {}
    /\ halted = "no"
    /\ nevts = 0
    /\ trace = <<>>

SpecSidecar == InitSidecar /\ [][NextSidecar]_vars

\* C18: every container the Create step asks for carries the label
\* LABEL_EXPORTED_NAME; taking a start or die event of such a container
\* changes neither the registry nor the loop and launches no unit of work
\* (no unit and no registry entry is ever for such a container); and a
\* listed container with these labels is never passed to the resolver.
C18_SidecarNeverMonitored ==
    [][/\ \A e \in Exporters :
             LABEL_EXPORTED_NAME \in DOMAIN LabelsOf(createContainerCall(e))
       /\ (nevts' = nevts + 1 /\ LABEL_EXPORTED_NAME \in DOMAIN trace'[1].attrs)
             => /\ loop' = loop
                /\ funcs' = funcs
                /\ invoked' = invoked
                /\ units' = units
                /\ held' = held
       /\ (DOMAIN funcs') \cap Cids = {}
       /\ \A u \in 1..Len(units') :
             LET p == units'[u]
             IN /\ p.kind \in {"start", "die"} => p.id \notin Cids
                /\ p.kind = "find" =>
                     \A i \in 1..Len(p.list) :
                        (\E e \in Exporters :
                            p.list[i].Labels = LabelsOf(createContainerCall(e)))
                        => \A r \in 1..Len(p.results) : p.results[r].t.ID # p.list[i].ID
      ]_vars

\* C18 witness: the detection has gone through a created container and a
\* task and resolved the task only, and the start event of a created
\* container was taken, after which nothing is registered or launched.
C18_Witness ==
    /\ Len(units) = 1
    /\ units[1].kind = "find" /\ units[1].pc = "returned"
    /\ Len(units[1].list) = 2
    /\ units[1].list[1] \in CreatedContainers
    /\ Len(units[1].results) = 1
    /\ nevts = 1
    /\ trace = <<[action |-> "start", id |-> "x1",
                  attrs |-> LabelsOf(createContainerCall(
                                CHOOSE e \in Exporters : e.TaskID = "c1"))]>>
    /\ funcs = <<>>
    /\ loop.pc = "select"

\* s without its first piece when that is "/".
TrimLeadingSlash(s) == IF s # <<>> /\ Head(s) = "/" THEN Tail(s) ELSE s

\* C16 as stated: the name of every resolved exporter is "exporter." + type
\* + "." + the name of the task without its leading slash.
C16_NameIsExporterTypeTask ==
    \A i \in 1..Len(trace) :
        \A k \in 1..Len(trace[i].exporters) :
            LET e == trace[i].exporters[k]
            IN e.Name = <<"exporter", ".", e.ExporterType, ".">>
                            \o TrimLeadingSlash(trace[i].t.Name)

\* C16, amended: the name of every resolved exporter is "/exporter." + its
\* catalog key + "." + the name of the task without its leading slashes;
\* the key is the type of the exporter.
C16_NameIsSlashExporterTypeTask ==
    \A i \in 1..Len(trace) :
        \A k \in 1..Len(trace[i].exporters) :
            LET e == trace[i].exporters[k]
                n == trace[i].t.Name
                lead == CHOOSE j \in 0..Len(n) :
                            /\ \A x \in 1..j : n[x] = "/"
                            /\ j < Len(n) => n[j + 1] # "/"
            IN /\ e.ExporterType \in CatalogKeys(trace[i].t)
               /\ e.Name = <<"/", "exporter", ".", e.ExporterType, ".">>
                               \o SubSeq(n, lead + 1, Len(n))

\* C16 witness: task //db was resolved to an exporter named /exporter.mysql.db.
C16_Witness ==
    \E i \in 1..Len(trace) :
        /\ trace[i].t.Name = <<"/", "/", "db">>
        /\ Len(trace[i].exporters) = 1
        /\ trace[i].exporters[1].Name = <<"/", "exporter", ".", "mysql", ".", "db">>

\* C17: two resolutions of the same task give the same exporters in the
\* same order.
C17_ResolutionDeterministic ==
    \A i, j \in 1..Len(trace) :
        trace[i].t = trace[j].t => trace[i].exporters = trace[j].exporters

\* C19 (missing-exporter detection): a task with the exporter-type label is
\* resolved to one exporter, of the type the label gives.
C19_ExplicitLabelIsSoleType ==
    \A i \in 1..Len(trace) :
        LABEL_EXPORTER \in DOMAIN trace[i].t.Labels =>
            /\ Len(trace[i].exporters) = 1
            /\ trace[i].exporters[1].ExporterType = trace[i].t.Labels[LABEL_EXPORTER]

----------------------------------------------------------------------------
(* The listener that sends TaskEvents (ListenForTasksToExport). Its code   *)
(* is not among the source files; it is modelled after the specification   *)
(* and its test, on top of resolveExporters. An attribute of an event is a *)
(* text; the name of a task is a sequence of pieces.                       *)

\* The attributes the runtime adds to the labels of the actor of an event.
RuntimeAttributes == {"name", "image", "exitCode"}

\* The labels the pipeline keeps its books with on a sidecar.
BookkeepingLabels == {LABEL_EXPORTED_ID, LABEL_EXPORTED_NAME}

\* The attributes of the actors of the events listened to: two tasks, the
\* second with an exit code, and a sidecar.
ListenAttributes ==
    {[l \in {"name", "image", "foo", "some.label"} |->
        CASE l = "name" -> "redis" [] l = "image" -> "some/image"
          [] l = "foo" -> "bar" [] OTHER -> "bzzzz"],
     [l \in {"name", "image", "exitCode", "foo"} |->
        CASE l = "name" -> "web" [] l = "image" -> "some/image"
          [] l = "exitCode" -> "137" [] OTHER -> "bar"],
     [l \in {"name", "image", LABEL_EXPORTED_ID, LABEL_EXPORTED_NAME} |->
        CASE l = "name" -> "exporter004" [] l = "image" -> "redis_exporter"
          [] l = LABEL_EXPORTED_ID -> "c1" [] OTHER -> "redis"]}

ListenEvents == [action : {"start", "die", "kill"}, id : {"c1"}, attrs : ListenAttributes]

\* The labels of the task of an event: the attributes of its actor that
\* are labels of the task.
taskLabels(attrs) ==
    [l \in (DOMAIN attrs) \ (RuntimeAttributes \cup BookkeepingLabels) |-> attrs[l]]

\* The task of an event.
taskOf(evt) ==
    [ID |-> evt.id, Name |-> <<evt.attrs["name"]>>, Labels |-> taskLabels(evt.attrs)]

taskEventType(action) == IF action = "start" THEN "Started" ELSE "Stopped"

\* What the listener sends for evt when the resolver goes through the
\* matching exporters in order o.
taskEvents(evt, o) ==
    IF IsExporterEvent(evt) \/ evt.action \notin {"start", "die"}
    THEN <<>>
    ELSE <<[Task |-> taskOf(evt),
            Type |-> taskEventType(evt.action),
            Exporters |-> resolveExporters(taskOf(evt), o)]>>

\* The listener takes evt; trace keeps the event and what was sent for it.
Listen(evt, o) ==
    /\ Running
    /\ loop.pc = "off"
    /\ Len(trace) < MaxOps
    /\ o \in RangeOrders(CatalogKeys(taskOf(evt)))
    /\ trace' = Append(trace, [evt |-> evt, sent |-> taskEvents(evt, o)])
    /\ UNCHANGED <<units, loop, funcs, invoked, mutex, held, halted, nevts>>

NextListen ==
    \E evt \in ListenEvents,
       o \in UNION {RangeOrders(CatalogKeys(taskOf(e))) : e \in ListenEvents} :
        Listen(evt, o)

SpecListen == InitReg /\ [][NextListen]_vars

----------------------------------------------------------------------------
(* The dispatcher, run with MaxDispatch events.                            *)

MaxDispatch == 2    \* events the stream delivers in SpecDispatch

NextDispatch ==
    \/ StreamError
    \/ CancelCtx
    \/ \E evt \in Events : nevts < MaxDispatch /\ Receive(evt)
    \/ LoopLock
    \/ AddBody
    \/ CancelBody
    \/ LoopUnlock
    \/ Go
    \/ \E u \in U : Sleep(u)
    \/ \E u \in U, how \in DispatchStartOutcomes : HandleStart(u, how)
    \/ \E u \in U : RunCancelled(u)
    \/ \E u \in U, out \in DispatchOutcomes : RunStep(u, out)
    \/ \E u \in U : RunFinished(u)
    \/ \E u \in U, how \in {"err", "notFound", "found"} : HandleStopFind(u, how)
    \/ \E u \in U, ok \in BOOLEAN : HandleStopCleanup(u, ok)
    \/ \E u \in U : RemoveLock(u)
    \/ \E u \in U : RemoveBody(u)
    \/ \E u \in U : RemoveUnlock(u)
    \/ \E u \in 0..Len(units) : MapRace(u)

SpecDispatch == Init /\ [][NextDispatch]_vars

\* C21: when the loop takes an error from the error channel of the stream
\* the dispatcher is over (the loop has exited and no unit of work is left),
\* and from then on no event is taken, the registry is not touched and no
\* unit of work is started.
C21_StreamErrorTerminates ==
    [][/\ (halted = "no" /\ halted' = "panic")
            => (loop'.pc = "exited" /\ units' = <<>>)
       /\ halted = "panic"
            => /\ halted' = "panic"
               /\ nevts' = nevts
               /\ funcs' = funcs
               /\ invoked' = invoked
               /\ units' = units
               /\ loop' = loop
      ]_vars

\* C21 witness: the error was taken.
C21_Witness ==
    /\ halted = "panic"
    /\ loop.pc = "exited"

\* No unit of work is in flight: every goroutine launched has ended.
NoUnitInFlight == \A u \in U : units[u].pc = "done"

\* A unit ends only through remove, and remove leaves no entry of its id.
RemovesWhenFinished ==
    \A u \in U :
        Len(units') >= u =>
            /\ (units[u].pc # "done" /\ units'[u].pc = "done")
                  => units[u].pc = "remove_unlock"
            /\ (units[u].pc # "remove_unlock" /\ units'[u].pc = "remove_unlock")
                  => /\ units[u].pc = "remove_body"
                     /\ units[u].id \notin DOMAIN funcs'

\* C22 as stated: every unit of work removes the entry of its id when it
\* finishes, and in every state where no unit of work is in flight the
\* registry holds no entry.
C22_EmptyWhenNoUnitInFlight ==
    /\ [](NoUnitInFlight => funcs = <<>>)
    /\ [][RemovesWhenFinished]_vars

\* C22, amended: every unit of work removes the entry of its id when it
\* finishes, and in every state where no unit of work is in flight and the
\* loop is not dispatching an event (it is at its select) the registry holds
\* no entry.
C22_EmptyWhenIdle ==
    /\ []((NoUnitInFlight /\ loop.pc = "select") => funcs = <<>>)
    /\ [][RemovesWhenFinished]_vars

\* C22 witness: a start unit and a die unit were launched and have ended,
\* the loop is back at its select and the registry is empty.
C22_Witness ==
    /\ Len(units) = 2
    /\ NoUnitInFlight
    /\ \E u \in U : units[u].kind = "start"
    /\ \E u \in U : units[u].kind = "die"
    /\ loop.pc = "select"
    /\ funcs = <<>>

\* C25: the unit of a die event is launched by the loop only after the
\* loop itself went through cancel for the id of the event: cancel called
\* the CancelFunc registered for the id, if any, and deleted the entry; and
\* the unit has issued no runtime call when it is launched.
C25_CancelBeforeTeardown ==
    [][/\ (Len(units') = Len(units) + 1 /\ Last(units').kind = "die")
            => /\ loop.pc = "go"
               /\ loop.evt.action = "die"
               /\ Last(units').id = loop.evt.id
               /\ Last(units').calls = <<>>
               /\ loop.evt.id \notin DOMAIN funcs
       /\ (loop.pc # "go" /\ loop'.pc = "go") => loop.pc = "unlock"
       /\ (loop.pc # "unlock" /\ loop'.pc = "unlock" /\ loop.evt.action = "die")
            => /\ loop.pc = "cancel_body"
               /\ loop'.evt = loop.evt
               /\ loop.evt.id \notin DOMAIN funcs'
               /\ loop.evt.id \in DOMAIN funcs
                    => invoked'[funcs[loop.evt.id]] = invoked[funcs[loop.evt.id]] + 1
      ]_vars

\* C25 witness: the unit of a die event has issued a runtime call, and the
\* context registered for a start unit of the same container is cancelled.
C25_Witness ==
    \E u, v \in U :
        /\ u < v
        /\ units[u].kind = "start" /\ units[v].kind = "die"
        /\ units[u].id = units[v].id
        /\ units[u].pc = "run_select"
        /\ invoked[units[u].reg] > 0
        /\ units[v].calls # <<>>

\* C26: while the program runs, whatever the units of work are doing the
\* loop can take its next step: at its select it can take any event the
\* stream holds (the stream has not ended and has events left), and in the
\* middle of a dispatch it can lock, add or cancel, unlock and launch.
C26_LoopNeverWaits ==
    Running =>
        /\ (loop.pc = "select" /\ invoked[ParentCtx] = 0 /\ nevts < MaxEvents)
             => \A evt \in Events :
                    (nevts = 0 => evt.id \in {"c1", "x1"}) => ENABLED Receive(evt)
        /\ loop.pc \in {"add_lock", "cancel_lock"} => ENABLED LoopLock
        /\ loop.pc = "add_body" => ENABLED AddBody
        /\ loop.pc = "cancel_body" => ENABLED CancelBody
        /\ loop.pc = "unlock" => ENABLED LoopUnlock
        /\ loop.pc = "go" => ENABLED Go

\* C26 witness: the loop is about to launch the unit of a second event
\* while the unit of the first sleeps in the delay of retry.
C26_Witness ==
    /\ Running
    /\ loop.pc = "go"
    /\ Len(units) = 1
    /\ units[1].pc = "sleep"

\* C27: a step of a unit of work, whatever its handler comes to (success,
\* a failed attempt, the last failure, a cancelled pipeline), changes
\* nothing another unit reads or is: the other units, the loop, the
\* contexts and the registry entries of the other ids stay as they are, and
\* the registry changes in the unit's remove only. So the calls and the
\* outcome of the units of a container do not depend on how the handling
\* of another container goes.
C27_UnitsDoNotInterfere ==
    [][\A u \in U :
          (Len(units') >= u /\ units'[u] # units[u])
          => /\ \A v \in U \ {u} : units'[v] = units[v]
             /\ Len(units') = Len(units)
             /\ loop' = loop
             /\ invoked' = invoked
             /\ halted' = halted
             /\ nevts' = nevts
             /\ \A k \in (DOMAIN funcs \cup DOMAIN funcs') \ {units[u].id} :
                   /\ k \in DOMAIN funcs
                   /\ k \in DOMAIN funcs'
                   /\ funcs'[k] = funcs[k]
             /\ funcs' # funcs => units[u].pc = "remove_body"
      ]_vars

\* C27 witness: the unit of container c1 has failed an attempt and sleeps
\* before the next, while the unit of c2 is in its pipeline, its entry in
\* the registry.
C27_Witness ==
    /\ Len(units) = 2
    /\ units[1].id = "c1" /\ units[2].id = "c2"
    /\ units[1].pc = "sleep"
    /\ units[2].kind = "start"
    /\ units[2].pc = "run_select"
    /\ units[2].step = stepStart
    /\ "c2" \in DOMAIN funcs

----------------------------------------------------------------------------
(* Properties of the dispatcher, checked under Spec *)

\* C1: a start unit whose registered context was cancelled (by the cancel
\* of a die event for its container) issues no runtime call at the next
\* step boundary of its pipeline: RunExporter returns nil there.
C1_CancelReachesPipeline ==
    [][\A u \in U :
          (/\ units[u].kind = "start"
           /\ units[u].pc = "run_select"
           /\ units[u].step \in {stepConnect, stepStart}
           /\ invoked[units[u].reg] > 0
           /\ Len(units') >= u)
          => \/ units'[u] = units[u]
             \/ units'[u] = AfterRun(units[u], Nil)]_vars

\* A die event for the container of unit u was dispatched after u was
\* registered: the loop is dispatching one, or has launched its unit.
DieSince(u) ==
    \/ loop.evt.action = "die" /\ loop.evt.id = units[u].id
    \/ \E v \in U : v > u /\ units[v].kind = "die" /\ units[v].id = units[u].id

\* No container was started twice without a die between: of two start
\* events for one id, dispatched or being dispatched, a die event for the
\* id was dispatched between them.
NoStartTwice ==
    /\ \A v, w \in U :
          (/\ v < w
           /\ units[v].kind = "start" /\ units[w].kind = "start"
           /\ units[v].id = units[w].id)
          => \E x \in U : /\ v < x /\ x < w
                          /\ units[x].kind = "die" /\ units[x].id = units[v].id
    /\ \A v \in U :
          (/\ loop.evt.action = "start"
           /\ units[v].kind = "start" /\ units[v].id = loop.evt.id)
          => \E x \in U : /\ v < x
                          /\ units[x].kind = "die" /\ units[x].id = units[v].id

\* C24, for the streams in which no container starts twice without a die
\* between (start, die, start): while a start unit has not come to its
\* remove and no die event for its container was dispatched since it was
\* registered, the registry holds for its id the entry registered for it.
C24_EntryLivesWithItsUnit ==
    NoStartTwice =>
        \A u \in U :
            (/\ units[u].kind = "start"
             /\ units[u].pc \notin {"remove_body", "remove_unlock", "done"}
             /\ ~DieSince(u))
            => /\ units[u].id \in DOMAIN funcs
               /\ funcs[units[u].id] = units[u].reg

\* C3: no two processes are between Lock and Unlock of a registry operation
\* at the same time.
C3_RegistryMutualExclusion == Cardinality(held) <= 1

\* C6: when retry has returned in a start unit whose last run of the
\* pipeline failed, the handler was attempted 3 times and retry returned
\* that failure (to be logged).
C6_PipelineFailureRetried ==
    \A u \in U :
        (/\ units[u].kind = "start"
         /\ units[u].pc = "remove_lock"
         /\ units[u].runErr # Nil)
        => /\ Len(units[u].frames) = retryTimes
           /\ units[u].err = units[u].runErr

====
